---- MODULE Spec2Model ----
(***************************************************************************)
(* Verification model of the emoji-pack bot runtime:                       *)
(*   - AntiSpamGuard          (modules/shared/services/anti_spam.py)       *)
(*   - EmojiProcessingQueue   (modules/images/services/queue.py)           *)
(*   - EmojiPackService       (modules/images/services/emoji_pack.py)      *)
(*   - emoji handlers         (app/handlers/emoji.py)                      *)
(*   - retry_async            (modules/images/utils/retry.py)              *)
(* One set of variables; each specification drives one part of the state   *)
(* and leaves the rest at its initial value.                               *)
(***************************************************************************)
EXTENDS Integers, Sequences, FiniteSets, TLC

(***************************************************************************)
(* Bounds of the model                                                     *)
(***************************************************************************)
MaxUsers == 2
MaxTime == 2
\* requests created in one run
MaxRequests == 2
\* distinct cache fingerprints (user_id, image_hash, grid, padding)
MaxKeys == 2
\* stop() calls in one run
MaxStops == 2
\* failures the environment injects in one run (I/O, remote service, store)
MaxFaults == 2
\* users whose dialogue is followed, the requests they are admitted for and
\* the failures injected while the bot serves them
MaxFlowUsers == 1
MaxFlowRequests == 1
MaxFlowFaults == 1

\* requests and failures of the runs checked for progress
MaxLiveRequests == 2

MaxLiveFaults == 1

MaxAttempts == 3

MaxDelay == 3

MaxFactor == 2

\* create_or_extend: tiles of a call, the limits, stickers of an existing set,
\* calls, deletions of the set by its owner
MaxTiles == 2

MaxLimit == 3

MaxExisting == 2

MaxCoeCalls == 2

MaxDeletes == 1

\* _build_short_name: digits of a user id, characters of the bot's username
MaxUidLen == 10

MaxNameLen == 32

\* tracking: concurrent calls, link rows, event rows, users, slugs asked for
MaxClients == 2

MaxLinks == 2

MaxEvents == 3

MaxTrackUsers == 1

MaxSlugs == 1

\* user settings: rows of a grid, the grid limit
MaxGridRows == 2

MaxGridLimit == 3

\* scratch area: entries of base_dir, completed sweeps
MaxEntries == 2

MaxSweeps == 2

\* one user of the bot: image requests begun
MaxUserRequests == 2

\* payload encoder: the small link ids
MaxLinkId == 40

\* suggest_grids: the sides of the image, max_tiles and limit
MaxSide == 3
MaxPlanTiles == 6
MaxPlanLimit == 3

\* the emoji dialogue: the configured limits, the images sent, the grid
\* sides and the padding a callback can name
MaxSelTiles == 3
MaxSelImages == 2
MaxCallbackSide == 3
MaxCallbackPadding == 6

\* usage_stats: calls in all, clock
MaxUsageCalls == 3
MaxUsageClock == 1

\* StageRegistry: the calls of register that succeed
MaxVersion == 3

\* normalize_text: the pieces of an input text
MaxTextLen == 4

\* the queue as tasks: requests submitted, calls of start and of stop
MaxTaskRequests == 3
MaxStarts == 2
MaxTaskStops == 1
\* create_or_extend attempt by attempt: the times the set appears or vanishes
MaxSetChanges == 2

Users == 1..MaxUsers
FlowUsers == 1..MaxFlowUsers
Requests == 1..MaxRequests
Keys == 1..MaxKeys

(***************************************************************************)
(* Program constants                                                       *)
(***************************************************************************)
\* AntiSpamGuard(cooldown_seconds = 2.0), in seconds
Cooldown == 2
\* EmojiProcessingQueue(workers = 2)
Workers == 2
\* the grid of the requests: EmojiGridOption(rows=1, cols=2)
GridRows == 1
GridCols == 2

WorkerIds == 1..Workers
NTiles == GridRows * GridCols
\* the None that stop() puts on the queue
Poison == 0
\* a short name has at most 64 characters
ShortNameMax == 64
\* strftime("%Y%m%d%H%M%S%f") gives 4+2+2+2+2+2+6 characters
TimestampLen == 20
\* the marker taken from the file stem or the file id: [:6]
MarkerLen == 6
\* slug_generator.MAX_SLUG_LENGTH
MAX_SLUG_LENGTH == 50
\* payload_encoder.MAX_PAYLOAD_LENGTH and SALT_BYTES; the timestamp takes 4 bytes
MAX_PAYLOAD_LENGTH == 64
SALT_BYTES == 4
TIMESTAMP_BYTES == 4
\* suggest_grids: rows and cols go up to min(10, max_tiles)
MaxGridSide == 10
\* the bits of a float's significand.  A double keeps 53; with 13 every
\* quotient of the sizes tried here is rounded to the same side as with 53,
\* so that the scores compare as the doubles do.
MantissaBits == 13
\* suggest_grids: the default of `limit`
DefaultPlanLimit == 5
\* _padding_keyboard offers the paddings 0..5
MaxPaddingLevel == 5
\* Settings.default_padding as configured
ConfiguredPadding == 2
\* retry_async: the defaults its callers in telegram_emoji.py run with
DefaultAttempts == 5
DefaultInitialDelay == 1
DefaultMaxDelay == 10
DefaultFactor == 2

VARIABLES
    now,        \* time.monotonic(), in ticks
    states,     \* AntiSpamGuard._states: user -> NoState | [busy, last_action]
    grants,     \* history: successful try_acquire calls per user (saturating at 2)
    releasedAt, \* history: time of the last release(u) since the last grant, -1 if none
    queue,      \* EmojiProcessingQueue._queue: requests and Poison, FIFO
    tasks,      \* EmojiProcessingQueue._tasks: the worker tasks in the list
    stopped,    \* EmojiProcessingQueue._stopped
    wpc,        \* position of each worker task
    wreq,       \* the request a worker has in process (0: none)
    wexc,       \* the exception pending in a worker's process call ("none")
    stopPc,     \* position of the stop() call: "idle" | "gather"
    future,     \* per request: "absent" | "pending" | "result" | an exception
    files,      \* scratch files: <<r, 0>> the source of r, <<r, i>> its tile i
    dirs,       \* the job directories that exist (by request)
    emoji_jobs, \* rows of the emoji_jobs table: [key, res]
    nextReq,    \* requests created so far
    reqKey,     \* per request: its fingerprint (0: not created)
    reqDir,     \* per request: "root" (file_path.parent is temp_dir) or "job"
    faultsLeft, \* failures the environment may still inject
    stopCalls,  \* stop() calls so far
    steps,      \* history: the steps done for each request, in order
    coe,        \* history: create_or_extend invocations per request
    coeRaised,  \* history: the exception create_or_extend raised for the request
    cleanupFailed, \* history: a cleanup operation of the request failed
    lastSaved,  \* history: per fingerprint, the request whose save committed last
    atStop,     \* history: what the stop() call in progress found when called
    fsm,        \* per user: the FSM state of the emoji dialogue and the request in it
    rst,        \* per request: where its handlers are
    reqUser,    \* per request: the user it belongs to (0: not created)
    rt,         \* one retry_async call: its arguments, locals and position
    tg,         \* create_or_extend: its call, and the sticker set on the server
    sn,         \* _build_short_name: two requests and their short names
    trk,        \* tracking: the two tables and the calls of TrackingService under way
    us,         \* UserSettingsService: the stored rows, the configuration, the last call
    sw,         \* TempFileManager: the entries of base_dir and the sweeper task
    tr,         \* AntiSpamGuard observed call by call: clock resolution, calls, last call
    txt,        \* handle_text: the users whose text is being processed
    pe,         \* payload_encoder: a link_id, its payload, the decoded link_id
    gp,         \* suggest_grids: its arguments and the plan it returned
    sel,        \* the emoji dialogue: the options offered, the selection, what was written and submitted
    ust,        \* usage_stats: the table, the write lock of the database, the calls of increment_usage
    reg,        \* StageRegistry: its entries, its version, the last call of register
    nt,         \* normalize_text: the input, the text of the context, the stages run
    wq,         \* EmojiProcessingQueue as tasks: its worker tasks, its queue, the order of the calls of process
    asm         \* create_or_extend attempt by attempt: the set, the attempt and delay of retry_async, the remote calls and sleeps

gateVars == <<now, states, grants, releasedAt>>

queueVars == <<queue, tasks, stopped, wpc, wreq, wexc, stopPc, future, files, dirs,
               emoji_jobs, nextReq, reqKey, reqDir, faultsLeft, stopCalls>>

histVars == <<steps, coe, coeRaised, cleanupFailed, lastSaved, atStop>>

flowVars == <<fsm, rst, reqUser>>

retryVars == <<rt>>

coeVars == <<tg>>

nameVars == <<sn>>

trackVars == <<trk>>

settingsVars == <<us>>

sweepVars == <<sw>>

traceVars == <<tr>>

textVars == <<txt>>

payloadVars == <<pe>>

planVars == <<gp>>

selectVars == <<sel>>

usageVars == <<ust>>

registryVars == <<reg>>

normVars == <<nt>>

taskVars == <<wq>>

assembleVars == <<asm>>

coreVars == <<gateVars, queueVars, histVars, flowVars>>

partVars == <<retryVars, coeVars, nameVars, trackVars, settingsVars, sweepVars, traceVars, textVars, payloadVars, planVars, selectVars, usageVars, registryVars, normVars, taskVars, assembleVars>>

vars == <<coreVars, partVars>>

\* what the actions of each part leave alone
outsideGate == <<queueVars, histVars, flowVars, partVars>>

outsideQueue == <<gateVars, flowVars, partVars>>

outsideFlow == <<partVars>>

outsideRetry == <<coreVars, coeVars, nameVars, trackVars, settingsVars, sweepVars, traceVars, textVars, payloadVars, planVars, selectVars, usageVars, registryVars, normVars, taskVars, assembleVars>>

outsideCoe == <<coreVars, retryVars, nameVars, trackVars, settingsVars, sweepVars, traceVars, textVars, payloadVars, planVars, selectVars, usageVars, registryVars, normVars, taskVars, assembleVars>>

outsideName == <<coreVars, retryVars, coeVars, trackVars, settingsVars, sweepVars, traceVars, textVars, payloadVars, planVars, selectVars, usageVars, registryVars, normVars, taskVars, assembleVars>>

outsideTrack == <<coreVars, retryVars, coeVars, nameVars, settingsVars, sweepVars, traceVars, textVars, payloadVars, planVars, selectVars, usageVars, registryVars, normVars, taskVars, assembleVars>>

outsideSettings == <<coreVars, retryVars, coeVars, nameVars, trackVars, sweepVars, traceVars, textVars, payloadVars, planVars, selectVars, usageVars, registryVars, normVars, taskVars, assembleVars>>

outsideSweep == <<coreVars, retryVars, coeVars, nameVars, trackVars, settingsVars, traceVars, textVars, payloadVars, planVars, selectVars, usageVars, registryVars, normVars, taskVars, assembleVars>>

outsidePayload == <<coreVars, retryVars, coeVars, nameVars, trackVars, settingsVars, sweepVars, traceVars, textVars, planVars, selectVars, usageVars, registryVars, normVars, taskVars, assembleVars>>

outsidePlan == <<coreVars, retryVars, coeVars, nameVars, trackVars, settingsVars, sweepVars, traceVars, textVars, payloadVars, selectVars, usageVars, registryVars, normVars, taskVars, assembleVars>>

outsideSelect == <<coreVars, retryVars, coeVars, nameVars, trackVars, settingsVars, sweepVars, traceVars, textVars, payloadVars, planVars, usageVars, registryVars, normVars, taskVars, assembleVars>>

outsideUsage == <<coreVars, retryVars, coeVars, nameVars, trackVars, settingsVars, sweepVars, traceVars, textVars, payloadVars, planVars, selectVars, registryVars, normVars, taskVars, assembleVars>>

outsideRegistry == <<coreVars, retryVars, coeVars, nameVars, trackVars, settingsVars, sweepVars, traceVars, textVars, payloadVars, planVars, selectVars, usageVars, normVars, taskVars, assembleVars>>

outsideNorm == <<coreVars, retryVars, coeVars, nameVars, trackVars, settingsVars, sweepVars, traceVars, textVars, payloadVars, planVars, selectVars, usageVars, registryVars, taskVars, assembleVars>>

outsideTasks == <<coreVars, retryVars, coeVars, nameVars, trackVars, settingsVars, sweepVars, traceVars, textVars, payloadVars, planVars, selectVars, usageVars, registryVars, normVars, assembleVars>>

outsideAssemble == <<coreVars, retryVars, coeVars, nameVars, trackVars, settingsVars, sweepVars, traceVars, textVars, payloadVars, planVars, selectVars, usageVars, registryVars, normVars, taskVars>>

outsideText == <<queueVars, histVars, flowVars, retryVars, coeVars, nameVars, trackVars, settingsVars, sweepVars, traceVars, payloadVars, planVars, selectVars, usageVars, registryVars, normVars, taskVars, assembleVars>>

outsideTrace == <<queueVars, histVars, flowVars, retryVars, coeVars, nameVars, trackVars, settingsVars, sweepVars, textVars, payloadVars, planVars, selectVars, usageVars, registryVars, normVars, taskVars, assembleVars>>

(***************************************************************************)
(* AntiSpamGuard                                                           *)
(***************************************************************************)
NoState == [busy |-> FALSE, last_action |-> -1]

HasState(st, u) == st[u] # NoState

\* the rejection test of try_acquire, for a user that has a state
CooldownTicks == Cooldown * tr.ticks

Rejects_NoBusyTest(st, u, t) == t - st[u].last_action < CooldownTicks

Rejects(st, u, t) == st[u].busy \/ t - st[u].last_action < CooldownTicks

TryAcquireResult_Always(st, u, t) == TRUE

\* what try_acquire(u) returns at time t
TryAcquireResult(st, u, t) == ~(HasState(st, u) /\ Rejects(st, u, t))

StatesAfterTryAcquire_KeepsStamp(st, u, t) ==
    IF HasState(st, u) /\ Rejects(st, u, t)
    THEN st
    ELSE [st EXCEPT ![u] = [busy |-> TRUE, last_action |-> t]]

\* _states after try_acquire(u) at time t
StatesAfterTryAcquire(st, u, t) ==
    IF HasState(st, u) /\ Rejects(st, u, t)
    THEN [st EXCEPT ![u].last_action = t]
    ELSE [st EXCEPT ![u] = [busy |-> TRUE, last_action |-> t]]

\* _states after release(u) at time t
StatesAfterRelease(st, u, t) ==
    [st EXCEPT ![u] = [busy |-> FALSE, last_action |-> t]]

GateStateInit ==
    /\ now = 0
    /\ states = [u \in Users |-> NoState]
    /\ grants = [u \in Users |-> 0]
    /\ releasedAt = [u \in Users |-> -1]

\* the monotonic clock advances
Tick ==
    /\ now < MaxTime
    /\ now' = now + 1
    /\ UNCHANGED <<states, grants, releasedAt>>
    /\ UNCHANGED outsideGate

TryAcquireCall(u) ==
    LET res == TryAcquireResult(states, u, now) IN
    /\ states' = StatesAfterTryAcquire(states, u, now)
    /\ grants' = IF res THEN [grants EXCEPT ![u] = IF @ < 2 THEN @ + 1 ELSE 2] ELSE grants
    /\ releasedAt' = IF res THEN [releasedAt EXCEPT ![u] = -1] ELSE releasedAt
    /\ UNCHANGED now

TryAcquire(u) == TryAcquireCall(u) /\ UNCHANGED outsideGate

ReleaseCall(u) ==
    /\ states' = StatesAfterRelease(states, u, now)
    /\ releasedAt' = [releasedAt EXCEPT ![u] = now]
    /\ UNCHANGED <<now, grants>>

Release(u) == ReleaseCall(u) /\ UNCHANGED outsideGate

\* reset(u) forgets the user; the history of the user starts anew
Reset(u) ==
    /\ states' = [states EXCEPT ![u] = NoState]
    /\ grants' = [grants EXCEPT ![u] = 0]
    /\ releasedAt' = [releasedAt EXCEPT ![u] = -1]
    /\ UNCHANGED now
    /\ UNCHANGED outsideGate

(***************************************************************************)
(* EmojiProcessingQueue, its workers and EmojiPackService.process          *)
(***************************************************************************)
Exceptions == {"E_read", "E_slice", "E_upload", "E_assemble", "E_save", "E_cleanup"}

NoStop == [pending |-> {}, running |-> FALSE]

Max(S) == CHOOSE x \in S : \A y \in S : y <= x

SourceOf(r) == <<r, 0>>

TilesOf(r) == {<<r, i>> : i \in 1..NTiles}

FilesOf(r) == {SourceOf(r)} \cup TilesOf(r)

\* `n` poison values
Poisons(n) == [i \in 1..n |-> Poison]

QueueFieldsInit ==
    /\ queue = <<>>
    /\ tasks = {}
    /\ stopped = FALSE
    /\ wpc = [w \in WorkerIds |-> "absent"]
    /\ wreq = [w \in WorkerIds |-> 0]
    /\ wexc = [w \in WorkerIds |-> "none"]
    /\ stopPc = "idle"
    /\ future = [r \in Requests |-> "absent"]
    /\ files = {}
    /\ dirs = {}
    /\ emoji_jobs = {}
    /\ nextReq = 0
    /\ reqKey = [r \in Requests |-> 0]
    /\ reqDir = [r \in Requests |-> "root"]
    /\ stopCalls = 0

QueueStateInit == QueueFieldsInit /\ faultsLeft = MaxFaults

HistInit ==
    /\ steps = [r \in Requests |-> <<>>]
    /\ coe = [r \in Requests |-> 0]
    /\ coeRaised = [r \in Requests |-> "none"]
    /\ cleanupFailed = [r \in Requests |-> FALSE]
    /\ lastSaved = [k \in Keys |-> 0]
    /\ atStop = NoStop

Log(r, names) == steps' = [steps EXCEPT ![r] = @ \o names]

\* start(): nothing when _tasks is not empty, else `workers` new worker tasks
Start ==
    /\ IF tasks # {}
       THEN UNCHANGED <<tasks, stopped, wpc>>
       ELSE /\ stopped' = FALSE
            /\ tasks' = WorkerIds
            /\ wpc' = [w \in WorkerIds |-> "get"]
    /\ UNCHANGED <<queue, wreq, wexc, stopPc, future, files, dirs, emoji_jobs, nextReq,
                   reqKey, reqDir, faultsLeft, stopCalls>>
    /\ UNCHANGED <<steps, coe, coeRaised, cleanupFailed, lastSaved, atStop>>
    /\ UNCHANGED outsideQueue

\* the queue after the puts of stop(): one None per configured worker
StopPuts(q) == q \o Poisons(Workers)

\* stop(), up to its await of gather(*_tasks)
StopCall ==
    /\ stopPc = "idle"
    /\ stopCalls < MaxStops
    /\ stopCalls' = stopCalls + 1
    /\ queue' = StopPuts(queue)
    /\ stopPc' = "gather"
    /\ atStop' = [pending |-> {r \in Requests : future[r] = "pending"},
                  running |-> tasks # {} /\ \A w \in tasks : wpc[w] # "done"]
    /\ UNCHANGED <<tasks, stopped, wpc, wreq, wexc, future, files, dirs, emoji_jobs,
                   nextReq, reqKey, reqDir, faultsLeft>>
    /\ UNCHANGED <<steps, coe, coeRaised, cleanupFailed, lastSaved>>
    /\ UNCHANGED outsideQueue

\* stop(), from the return of gather: every task of _tasks has finished
StopReturn ==
    /\ stopPc = "gather"
    /\ \A w \in tasks : wpc[w] = "done"
    /\ tasks' = {}
    /\ wpc' = [w \in WorkerIds |-> IF w \in tasks THEN "absent" ELSE wpc[w]]
    /\ stopped' = TRUE
    /\ stopPc' = "idle"
    /\ atStop' = NoStop
    /\ UNCHANGED <<queue, wreq, wexc, future, files, dirs, emoji_jobs, nextReq, reqKey,
                   reqDir, faultsLeft, stopCalls>>
    /\ UNCHANGED <<steps, coe, coeRaised, cleanupFailed, lastSaved>>
    /\ UNCHANGED outsideQueue

\* submit(request): a new pending future, the pair appended to the queue
Enqueue(r) ==
    /\ future' = [future EXCEPT ![r] = "pending"]
    /\ queue' = Append(queue, r)

\* a caller of the queue writes a source file and submits a request for it
Submit(k, d) ==
    LET r == nextReq + 1 IN
    /\ nextReq < MaxRequests
    /\ k <= Max({reqKey[q] : q \in Requests}) + 1
    /\ nextReq' = r
    /\ reqKey' = [reqKey EXCEPT ![r] = k]
    /\ reqDir' = [reqDir EXCEPT ![r] = d]
    /\ files' = files \cup {SourceOf(r)}
    /\ dirs' = IF d = "job" THEN dirs \cup {r} ELSE dirs
    /\ Enqueue(r)
    /\ Log(r, <<"persist", "enqueue">>)
    /\ UNCHANGED <<tasks, stopped, wpc, wreq, wexc, stopPc, emoji_jobs, faultsLeft, stopCalls>>
    /\ UNCHANGED <<coe, coeRaised, cleanupFailed, lastSaved, atStop>>
    /\ UNCHANGED outsideQueue

Resolved_DropsFailure(fut, r, value) ==
    IF fut[r] = "pending" /\ value = "result" THEN [fut EXCEPT ![r] = value] ELSE fut

\* the worker's handling of what process did: set_exception or set_result
\* (unless the future is done), then task_done and back to queue.get()
Resolved(fut, r, value) ==
    IF fut[r] = "pending" THEN [fut EXCEPT ![r] = value] ELSE fut

WorkerBackToGet(w) ==
    /\ wpc' = [wpc EXCEPT ![w] = "get"]
    /\ wreq' = [wreq EXCEPT ![w] = 0]
    /\ wexc' = [wexc EXCEPT ![w] = "none"]

\* process raised `exc` in worker w: the worker resolves the future with it
ProcessRaises(w, exc) ==
    /\ future' = Resolved(future, wreq[w], exc)
    /\ WorkerBackToGet(w)

\* `item = await self._queue.get()`: the head of the queue; on None the task
\* ends, else process(request) starts
WorkerGet(w) ==
    /\ wpc[w] = "get"
    /\ queue # <<>>
    /\ queue' = Tail(queue)
    /\ IF Head(queue) = Poison
       THEN /\ wpc' = [wpc EXCEPT ![w] = "done"]
            /\ UNCHANGED wreq
       ELSE /\ wpc' = [wpc EXCEPT ![w] = "read"]
            /\ wreq' = [wreq EXCEPT ![w] = Head(queue)]
    /\ UNCHANGED <<tasks, stopped, wexc, stopPc, future, files, dirs, emoji_jobs, nextReq,
                   reqKey, reqDir, faultsLeft, stopCalls>>
    /\ UNCHANGED histVars
    /\ UNCHANGED outsideQueue

\* process, step 1: read the source file (fails when it is missing)
ProcRead(w) ==
    LET r == wreq[w] IN
    /\ wpc[w] = "read"
    /\ \/ /\ SourceOf(r) \in files
          /\ wpc' = [wpc EXCEPT ![w] = "slice"]
          /\ UNCHANGED <<wreq, wexc, future, faultsLeft>>
       \/ /\ SourceOf(r) \notin files \/ faultsLeft > 0
          /\ faultsLeft' = IF SourceOf(r) \in files THEN faultsLeft - 1 ELSE faultsLeft
          /\ ProcessRaises(w, "E_read")
    /\ UNCHANGED <<queue, tasks, stopped, stopPc, files, dirs, emoji_jobs, nextReq,
                   reqKey, reqDir, stopCalls>>
    /\ UNCHANGED histVars
    /\ UNCHANGED outsideQueue

\* process, step 2: slice_into_tiles writes the tile files into the job
\* directory; a failure leaves the tiles written so far
ProcSlice(w) ==
    LET r == wreq[w] IN
    /\ wpc[w] = "slice"
    /\ \/ /\ files' = files \cup TilesOf(r)
          /\ wpc' = [wpc EXCEPT ![w] = "upload"]
          /\ Log(r, <<"slice">>)
          /\ UNCHANGED <<wreq, wexc, future, faultsLeft>>
       \/ /\ faultsLeft > 0
          /\ faultsLeft' = faultsLeft - 1
          /\ \E n \in 0..(NTiles - 1) : files' = files \cup {<<r, i>> : i \in 1..n}
          /\ ProcessRaises(w, "E_slice")
          /\ UNCHANGED steps
    /\ UNCHANGED <<queue, tasks, stopped, stopPc, dirs, emoji_jobs, nextReq, reqKey,
                   reqDir, stopCalls>>
    /\ UNCHANGED <<coe, coeRaised, cleanupFailed, lastSaved, atStop>>
    /\ UNCHANGED outsideQueue

\* process, step 3 (inside try): create_or_extend is invoked and uploads the tiles
ProcUpload(w) ==
    LET r == wreq[w] IN
    /\ wpc[w] = "upload"
    /\ coe' = [coe EXCEPT ![r] = @ + 1]
    /\ \/ /\ wpc' = [wpc EXCEPT ![w] = "assemble"]
          /\ Log(r, <<"upload">>)
          /\ UNCHANGED <<wexc, faultsLeft, coeRaised>>
       \/ /\ faultsLeft > 0
          /\ faultsLeft' = faultsLeft - 1
          /\ wpc' = [wpc EXCEPT ![w] = "clean"]
          /\ wexc' = [wexc EXCEPT ![w] = "E_upload"]
          /\ coeRaised' = [coeRaised EXCEPT ![r] = "E_upload"]
          /\ UNCHANGED steps
    /\ UNCHANGED <<queue, tasks, stopped, wreq, stopPc, future, files, dirs, emoji_jobs,
                   nextReq, reqKey, reqDir, stopCalls>>
    /\ UNCHANGED <<cleanupFailed, lastSaved, atStop>>
    /\ UNCHANGED outsideQueue

\* process, step 3 continued: create_or_extend extends or creates the set and
\* returns the result
ProcAssemble(w) ==
    LET r == wreq[w] IN
    /\ wpc[w] = "assemble"
    /\ wpc' = [wpc EXCEPT ![w] = "clean"]
    /\ \/ /\ Log(r, <<"assemble">>)
          /\ UNCHANGED <<wexc, faultsLeft, coeRaised>>
       \/ /\ faultsLeft > 0
          /\ faultsLeft' = faultsLeft - 1
          /\ wexc' = [wexc EXCEPT ![w] = "E_assemble"]
          /\ coeRaised' = [coeRaised EXCEPT ![r] = "E_assemble"]
          /\ UNCHANGED steps
    /\ UNCHANGED <<queue, tasks, stopped, wreq, stopPc, future, files, dirs, emoji_jobs,
                   nextReq, reqKey, reqDir, stopCalls>>
    /\ UNCHANGED <<coe, cleanupFailed, lastSaved, atStop>>
    /\ UNCHANGED outsideQueue

\* the files left by the unlinks of the finally block, `failed` being the
\* files whose unlink raised
FilesAfterUnlinks(fs, r, failed) == fs \ (FilesOf(r) \ failed)

\* the exception that leaves the finally block: every cleanup operation is in
\* its own try/except, so the pending one (or none) is kept
AfterCleanup_Replaces(pending, cleanupRaised) ==
    IF cleanupRaised THEN "E_cleanup" ELSE pending

AfterCleanup(pending, cleanupRaised) == pending

\* process, step 4 (finally): unlink every tile and the source, then rmtree
\* the job directory when it is not temp_dir (ignore_errors = True)
ProcClean(w) ==
    LET r == wreq[w] IN
    /\ wpc[w] = "clean"
    /\ \E failed \in SUBSET (FilesOf(r) \cap files), rmFails \in BOOLEAN :
         LET n == Cardinality(failed) + (IF rmFails THEN 1 ELSE 0)
             left == FilesAfterUnlinks(files, r, failed)
             exc == AfterCleanup(wexc[w], n > 0)
         IN
         /\ n <= faultsLeft
         /\ rmFails => reqDir[r] = "job"
         /\ faultsLeft' = faultsLeft - n
         /\ cleanupFailed' = [cleanupFailed EXCEPT ![r] = n > 0]
         /\ IF reqDir[r] = "job" /\ ~rmFails
            THEN /\ files' = left \ FilesOf(r)
                 /\ dirs' = dirs \ {r}
            ELSE /\ files' = left
                 /\ UNCHANGED dirs
         /\ IF exc # "none"
            THEN ProcessRaises(w, exc)
            ELSE /\ wpc' = [wpc EXCEPT ![w] = "save"]
                 /\ UNCHANGED <<wreq, wexc, future>>
    /\ Log(r, <<"clean">>)
    /\ UNCHANGED <<queue, tasks, stopped, stopPc, emoji_jobs, nextReq, reqKey, reqDir,
                   stopCalls>>
    /\ UNCHANGED <<coe, coeRaised, lastSaved, atStop>>
    /\ UNCHANGED outsideQueue

JobsAfterSave_KeepsOld(jobs, k, r) ==
    IF \E row \in jobs : row.key = k THEN jobs ELSE jobs \cup {[key |-> k, res |-> r]}

\* INSERT OR REPLACE INTO emoji_jobs, primary key the fingerprint
JobsAfterSave(jobs, k, r) ==
    {row \in jobs : row.key # k} \cup {[key |-> k, res |-> r]}

\* process, step 5: save_job_outcome, then return the outcome; the worker
\* resolves the future with it
ProcSave(w) ==
    LET r == wreq[w] IN
    /\ wpc[w] = "save"
    /\ \/ /\ emoji_jobs' = JobsAfterSave(emoji_jobs, reqKey[r], r)
          /\ lastSaved' = [lastSaved EXCEPT ![reqKey[r]] = r]
          /\ Log(r, <<"cache">>)
          /\ future' = Resolved(future, r, "result")
          /\ WorkerBackToGet(w)
          /\ UNCHANGED faultsLeft
       \/ /\ faultsLeft > 0
          /\ faultsLeft' = faultsLeft - 1
          /\ ProcessRaises(w, "E_save")
          /\ UNCHANGED <<emoji_jobs, lastSaved, steps>>
    /\ UNCHANGED <<queue, tasks, stopped, stopPc, files, dirs, nextReq, reqKey, reqDir,
                   stopCalls>>
    /\ UNCHANGED <<coe, coeRaised, cleanupFailed, atStop>>
    /\ UNCHANGED outsideQueue

FlowStateInit ==
    /\ fsm = [u \in Users |-> [state |-> "none", req |-> 0]]
    /\ rst = [r \in Requests |-> "none"]
    /\ reqUser = [r \in Requests |-> 0]

WorkerStep(w) ==
    \/ WorkerGet(w)
    \/ ProcRead(w)
    \/ ProcSlice(w)
    \/ ProcUpload(w)
    \/ ProcAssemble(w)
    \/ ProcClean(w)
    \/ ProcSave(w)

\* no retry_async call is under way
NoRetry ==
    [pc |-> "none", attempts |-> 0, initial_delay |-> 0, max_delay |-> 0, factor |-> 0,
     attempt |-> 0, delay |-> 0, last_exc |-> 0, calls |-> 0, sleeps |-> <<>>,
     raised |-> 0, retryable |-> TRUE]

RetryIdle == rt = NoRetry

\* no create_or_extend call has been made, no sticker set exists
NoCoe ==
    [pc |-> "none", creation_limit |-> 0, total_limit |-> 0, set |-> -1, n |-> 0, i |-> 0,
     calls |-> 0, first |-> "none", before |-> -1, added |-> <<>>, log |-> <<>>,
     raised |-> "none", deletes |-> 0]

CoeIdle == tg = NoCoe

\* _build_short_name has not been called
NoNames ==
    [pc |-> "none", uidLen |-> 0, nameLen |-> 0, at |-> <<0, 0>>, entropy |-> <<0, 0>>,
     short_name |-> <<<<>>, <<>>>>]

NameIdle == sn = NoNames

\* the tracking tables are empty and no call of TrackingService is under way
NoCall == [op |-> "none", pc |-> "idle", slug |-> <<>>, link |-> 0, user |-> 0,
           has_started |-> FALSE]

\* a /start payload: whether decode_payload accepts it and the link_id it
\* yields, n + 2^63 when wide (a Python int is unbounded)
NoPayload == [decodable |-> FALSE, wide |-> FALSE, n |-> 0]

NoStart == [payload |-> NoPayload, active |-> FALSE, result |-> "none"]

\* the last create_tracking_link and the last delete_link
NoCreate == [asked |-> <<>>, chosen |-> <<>>, raised |-> FALSE]

NoDelete == [link |-> 0, returned |-> FALSE]

NoTracking ==
    [links |-> <<>>, events |-> <<>>, call |-> [c \in 1..MaxClients |-> NoCall],
     last |-> NoStart, made |-> NoCreate, del |-> NoDelete]

TrackIdle == trk = NoTracking

\* no settings are stored and UserSettingsService has not been called
NoLast == [op |-> "none", user |-> 0, stored |-> <<>>, grid |-> <<>>, padding |-> 0,
           raised |-> FALSE]

NoSettings ==
    [store |-> <<>>, grid_limit |-> 0, default_grid |-> <<>>, default_padding |-> 0,
     last |-> NoLast]

SettingsIdle == us = NoSettings

\* base_dir is empty and the sweeper has not been started
NoSweep ==
    [entries |-> <<>>, pc |-> "none", listing |-> {}, cur |-> 0, curOld |-> FALSE,
     branch |-> "none", sweeps |-> 0, stopped |-> FALSE, raised |-> "none",
     used |-> {}, plain |-> {}, live |-> {}, removed |-> [kind |-> "none", old |-> FALSE, live |-> FALSE]]

SweepIdle == sw = NoSweep

\* no call of the guard is observed; the clock counts whole seconds
NoTraceCall == [pre |-> <<>>, post |-> <<>>, othersKept |-> TRUE]

NoTrace == [ticks |-> 1, log |-> <<>>, last |-> NoTraceCall]

TraceIdle == tr = NoTrace

\* no text message is being processed
TextIdle == txt = {}

\* no payload has been encoded
NoEncoding ==
    [pc |-> "none", link_id |-> 0, salt |-> <<>>, timestamp |-> <<>>,
     payload |-> [raised |-> FALSE, value |-> <<>>],
     decoded |-> [raised |-> FALSE, value |-> 0]]

PayloadIdle == pe = NoEncoding

\* suggest_grids has not been called
NoPlan ==
    [pc |-> "none", width |-> 0, height |-> 0, max_tiles |-> 0, limit |-> 0,
     options |-> <<>>, fallback |-> <<0, 0>>]

PlanIdle == gp = NoPlan

\* no callback has been handled
\* `scratch` and `submitted` are the files written and the requests submitted
\* before the callback
NoCallback == [op |-> "none", value |-> <<>>, valid |-> TRUE, scratch |-> 0, submitted |-> 0]

\* no image has been sent
NoSelection ==
    [state |-> "none", max_tiles |-> 0, creation_limit |-> 0, grid_option_cap |-> 0,
     suggested |-> <<>>, default_grid |-> <<>>, default_padding |-> 0,
     selected_grid |-> <<>>, settings |-> <<>>, scratch |-> 0, submitted |-> <<>>,
     images |-> 0, last |-> NoCallback]

SelectIdle == sel = NoSelection

\* a connection that no call of increment_usage uses
NoUsageCall == [pc |-> "idle", user |-> 0, username |-> "", display_name |-> "", now |-> 0,
                row |-> <<>>]

\* usage_stats is empty and nobody has called increment_usage
NoUsage ==
    [rows |-> [u \in {1, 2} |-> <<>>], lock |-> 0, clock |-> 0,
     call |-> [c \in {1, 2} |-> NoUsageCall],
     returned |-> [u \in {1, 2} |-> 0],
     first |-> [u \in {1, 2} |-> -1],
     overlapped |-> FALSE]

UsageIdle == ust = NoUsage

\* register has not been called
NoRegister ==
    [op |-> "none", key |-> "", before |-> "", after |-> "",
     replace |-> FALSE, raised |-> FALSE, entries |-> <<>>, version |-> 0]

\* StageRegistry(): no entries, version 0; _PIPELINE_CACHE is None (<<>>),
\* no pipeline has been handed out
NoRegistry ==
    [entries |-> <<>>, version |-> 0, cache |-> <<>>, pipeline |-> <<>>, last |-> NoRegister]

RegistryIdle == reg = NoRegistry

\* normalize_text has not been called
NoNormalization == [stage |-> "none", input |-> <<>>, text |-> <<>>]

NormIdle == nt = NoNormalization

\* no call of the queue has been made
\* `running` counts the tasks running when the call was made, `created` the
\* tasks it created
NoQueueCall == [op |-> "none", created |-> 0, running |-> 0]

\* EmojiProcessingQueue(service, workers=n) before start()
NoTasks ==
    [workers |-> 0, tasks |-> <<>>, queue |-> <<>>, stopPc |-> "idle", submitted |-> 0,
     starts |-> 0, stops |-> 0, calls |-> [r \in 1..MaxTaskRequests |-> 0],
     started |-> <<>>, resolved |-> <<>>, last |-> NoQueueCall]

TasksIdle == wq = NoTasks

\* create_or_extend has not reached its first get_sticker_set
NoAssemble ==
    [pc |-> "none", set |-> -1, attempt |-> 0, delay |-> 0, first |-> "none",
     log |-> <<>>, changes |-> 0]

AssembleIdle == asm = NoAssemble

PartsIdle == RetryIdle /\ CoeIdle /\ NameIdle /\ TrackIdle /\ SettingsIdle /\ SweepIdle /\ TraceIdle /\ TextIdle /\ PayloadIdle /\ PlanIdle /\ SelectIdle /\ UsageIdle /\ RegistryIdle /\ NormIdle /\ TasksIdle /\ AssembleIdle

IdleInit == GateStateInit /\ QueueStateInit /\ HistInit /\ FlowStateInit /\ PartsIdle

WorkerNext ==
    \/ \E w \in WorkerIds : WorkerGet(w)
    \/ \E w \in WorkerIds : ProcRead(w)
    \/ \E w \in WorkerIds : ProcSlice(w)
    \/ \E w \in WorkerIds : ProcUpload(w)
    \/ \E w \in WorkerIds : ProcAssemble(w)
    \/ \E w \in WorkerIds : ProcClean(w)
    \/ \E w \in WorkerIds : ProcSave(w)

RunNext ==
    \/ Start
    \/ \E k \in Keys, d \in {"root", "job"} : Submit(k, d)
    \/ WorkerNext

\* the queue started and fed, never stopped
SpecRun == IdleInit /\ [][RunNext]_vars

LiveInit ==
    /\ GateStateInit /\ HistInit /\ FlowStateInit /\ PartsIdle
    /\ QueueFieldsInit
    /\ faultsLeft = MaxLiveFaults

\* a submission whose key and directory play no part in its resolution
LiveSubmit ==
    /\ nextReq < MaxLiveRequests
    /\ Submit(1, "root")

LiveNext ==
    \/ Start
    \/ LiveSubmit
    \/ WorkerNext

\* the queue started and fed, never stopped; the event loop runs every task
\* that can run and every process call terminates
LiveRun ==
    LiveInit /\ [][LiveNext]_vars /\ \A w \in WorkerIds : WF_vars(WorkerStep(w))

QueueNext ==
    \/ Start
    \/ StopCall
    \/ StopReturn
    \/ \E k \in Keys, d \in {"root", "job"} : Submit(k, d)
    \/ WorkerNext

\* the queue driven through its whole interface: start, stop, submit
SpecQueue == IdleInit /\ [][QueueNext]_vars

GateInit == IdleInit

(***************************************************************************)
(* The emoji handlers: on_image, choose_grid, choose_padding, finalize     *)
(***************************************************************************)
NoDialogue == [state |-> "none", req |-> 0]

\* the guard alone, as the handlers call it (no history kept)
Admitted(u) ==
    /\ states' = StatesAfterTryAcquire(states, u, now)
    /\ UNCHANGED <<now, grants, releasedAt>>

Released(u) ==
    /\ states' = StatesAfterRelease(states, u, now)
    /\ UNCHANGED <<now, grants, releasedAt>>

\* on_image: try_acquire(user_id); when rejected the handler answers and
\* returns. When admitted a request begins: download and probe (released and
\* re-raised on failure), user_settings.get, the FSM data, the grid keyboard.
\* A failure of the last reply leaves the same state as its success.
OnImage(u, k) ==
    LET res == TryAcquireResult(states, u, now)
        r == nextReq + 1
    IN
    /\ res => nextReq < MaxRequests
    /\ k <= Max({reqKey[q] : q \in Requests}) + 1
    /\ IF ~res
       THEN /\ Admitted(u)
            /\ UNCHANGED <<nextReq, reqUser, reqKey, rst, steps, fsm, faultsLeft>>
       ELSE /\ nextReq' = r
            /\ reqUser' = [reqUser EXCEPT ![r] = u]
            /\ reqKey' = [reqKey EXCEPT ![r] = k]
            /\ \/ /\ faultsLeft > 0
                  /\ faultsLeft' = faultsLeft - 1
                  /\ Released(u)
                  /\ Log(r, <<"admit", "release">>)
                  /\ rst' = [rst EXCEPT ![r] = "aborted"]
                  /\ UNCHANGED fsm
               \/ /\ faultsLeft > 0
                  /\ faultsLeft' = faultsLeft - 1
                  /\ Admitted(u)
                  /\ Log(r, <<"admit">>)
                  /\ rst' = [rst EXCEPT ![r] = "aborted"]
                  /\ UNCHANGED fsm
               \/ /\ Admitted(u)
                  /\ Log(r, <<"admit">>)
                  /\ fsm' = [fsm EXCEPT ![u] = [state |-> "wait_grid", req |-> r]]
                  /\ rst' = [rst EXCEPT ![r] = "offered"]
                  /\ UNCHANGED faultsLeft
    /\ UNCHANGED <<queue, tasks, stopped, wpc, wreq, wexc, stopPc, future, files, dirs,
                   emoji_jobs, reqDir, stopCalls>>
    /\ UNCHANGED <<coe, coeRaised, cleanupFailed, lastSaved, atStop>>
    /\ UNCHANGED outsideFlow

\* choose_grid with a suggested grid: the dialogue moves on to the padding
ChooseGrid(u) ==
    /\ fsm[u].state = "wait_grid"
    /\ fsm' = [fsm EXCEPT ![u].state = "wait_pad"]
    /\ UNCHANGED <<gateVars, queueVars, histVars, rst, reqUser>>
    /\ UNCHANGED outsideFlow

\* choose_padding: the dialogue is cleared, write_bytes puts the source in
\* the scratch root, user_settings.update, submit, the two replies, and the
\* finalize task; a failure of any of them leaves the handler at once
ChoosePadding(u) ==
    LET r == fsm[u].req IN
    /\ fsm[u].state = "wait_pad"
    /\ fsm' = [fsm EXCEPT ![u] = NoDialogue]
    /\ \/ /\ faultsLeft > 0
          /\ faultsLeft' = faultsLeft - 1
          /\ rst' = [rst EXCEPT ![r] = "aborted"]
          /\ UNCHANGED <<files, future, queue, steps>>
       \/ /\ faultsLeft > 0
          /\ faultsLeft' = faultsLeft - 1
          /\ files' = files \cup {SourceOf(r)}
          /\ Log(r, <<"persist">>)
          /\ rst' = [rst EXCEPT ![r] = "aborted"]
          /\ UNCHANGED <<future, queue>>
       \/ /\ files' = files \cup {SourceOf(r)}
          /\ Enqueue(r)
          /\ Log(r, <<"persist", "enqueue">>)
          /\ \/ /\ rst' = [rst EXCEPT ![r] = "queued"]
                /\ UNCHANGED faultsLeft
             \/ /\ faultsLeft > 0
                /\ faultsLeft' = faultsLeft - 1
                /\ rst' = [rst EXCEPT ![r] = "aborted"]
    /\ UNCHANGED <<tasks, stopped, wpc, wreq, wexc, stopPc, dirs, emoji_jobs,
                   nextReq, reqKey, reqDir, stopCalls>>
    /\ UNCHANGED <<coe, coeRaised, cleanupFailed, lastSaved, atStop, reqUser>>
    /\ UNCHANGED gateVars
    /\ UNCHANGED outsideFlow

FinalizeReady_NoAwait(r) == TRUE

\* `outcome = await future` in finalize
FinalizeReady(r) == future[r] \notin {"absent", "pending"}

\* finalize: once the future is resolved, report, and release in `finally`
Finalize(r) ==
    /\ rst[r] = "queued"
    /\ FinalizeReady(r)
    /\ Released(reqUser[r])
    /\ Log(r, <<"release">>)
    /\ rst' = [rst EXCEPT ![r] = "finished"]
    /\ UNCHANGED queueVars
    /\ UNCHANGED <<coe, coeRaised, cleanupFailed, lastSaved, atStop, fsm, reqUser>>
    /\ UNCHANGED outsideFlow

\* the state when polling begins: on_startup has started the workers
StartedInit ==
    /\ GateStateInit /\ HistInit /\ FlowStateInit /\ PartsIdle
    /\ queue = <<>>
    /\ tasks = WorkerIds
    /\ stopped = FALSE
    /\ wpc = [w \in WorkerIds |-> "get"]
    /\ wreq = [w \in WorkerIds |-> 0]
    /\ wexc = [w \in WorkerIds |-> "none"]
    /\ stopPc = "idle"
    /\ future = [r \in Requests |-> "absent"]
    /\ files = {}
    /\ dirs = {}
    /\ emoji_jobs = {}
    /\ nextReq = 0
    /\ reqKey = [r \in Requests |-> 0]
    /\ reqDir = [r \in Requests |-> "root"]
    /\ faultsLeft = MaxFlowFaults
    /\ stopCalls = 0

\* every image has the same hash: process never reads emoji_jobs
FlowNext ==
    \/ Tick
    \/ \E u \in FlowUsers :
         (TryAcquireResult(states, u, now) => nextReq < MaxFlowRequests) /\ OnImage(u, 1)
    \/ \E u \in FlowUsers : ChooseGrid(u)
    \/ \E u \in FlowUsers : ChoosePadding(u)
    \/ \E r \in Requests : Finalize(r)
    \/ WorkerNext

\* the bot serving image requests
SpecFlow == StartedInit /\ [][FlowNext]_vars

GateNext ==
    \/ Tick
    \/ \E u \in Users : TryAcquire(u)
    \/ \E u \in Users : Release(u)
    \/ \E u \in Users : Reset(u)

SpecGate == GateInit /\ [][GateNext]_vars

(***************************************************************************)
(* retry_async: one call, the operation's outcomes chosen by the           *)
(* environment.  A failure is named by the attempt that raised it; delays  *)
(* are whole numbers of a time unit.                                       *)
(***************************************************************************)
Min(a, b) == IF a <= b THEN a ELSE b

\* the delay after one more sleep
NextDelay(delay, factor, max_delay) == Min(delay * factor, max_delay)

\* the test that re-raises instead of sleeping
IsLastAttempt_Never(attempt, attempts) == FALSE

IsLastAttempt(attempt, attempts) == attempt = attempts

Propagates_Retried(retryable) == FALSE

\* a failure outside retry_exceptions leaves the loop at once
Propagates(retryable) == ~retryable

\* the call is entered: delay = initial_delay, the loop starts at attempt 1
CoreIdle == GateStateInit /\ QueueStateInit /\ HistInit /\ FlowStateInit

RetryInit ==
    /\ CoreIdle /\ CoeIdle /\ NameIdle /\ TrackIdle /\ SettingsIdle /\ SweepIdle /\ TraceIdle /\ TextIdle /\ PayloadIdle /\ PlanIdle /\ SelectIdle /\ UsageIdle /\ RegistryIdle /\ NormIdle /\ TasksIdle /\ AssembleIdle
    /\ \E a \in 1..MaxAttempts, d \in 1..MaxDelay, m \in 1..MaxDelay, f \in 1..MaxFactor :
         rt = [NoRetry EXCEPT !.pc = "call", !.attempts = a, !.initial_delay = d,
                              !.max_delay = m, !.factor = f, !.attempt = 1, !.delay = d]

\* await func() returns: retry_async returns its value
RetryCallOk ==
    /\ rt.pc = "call"
    /\ rt' = [rt EXCEPT !.calls = @ + 1, !.pc = "returned"]
    /\ UNCHANGED outsideRetry

\* await func() raises; retryable tells whether the failure is in retry_exceptions
RetryCallFails(retryable) ==
    /\ rt.pc = "call"
    /\ LET called == [rt EXCEPT !.calls = @ + 1, !.retryable = @ /\ retryable] IN
       rt' = IF Propagates(retryable)
             THEN [called EXCEPT !.pc = "raised", !.raised = rt.attempt]
             ELSE IF IsLastAttempt(rt.attempt, rt.attempts)
             THEN [called EXCEPT !.last_exc = rt.attempt, !.pc = "raised",
                                 !.raised = rt.attempt]
             ELSE [called EXCEPT !.last_exc = rt.attempt, !.pc = "sleep"]
    /\ UNCHANGED outsideRetry

\* asyncio.sleep(delay) returns, the delay grows, the loop goes on or runs out
RetrySleep ==
    /\ rt.pc = "sleep"
    /\ LET slept == [rt EXCEPT !.sleeps = Append(@, rt.delay),
                               !.delay = NextDelay(rt.delay, rt.factor, rt.max_delay)]
       IN rt' = IF rt.attempt < rt.attempts
                THEN [slept EXCEPT !.attempt = @ + 1, !.pc = "call"]
                ELSE [slept EXCEPT !.pc = "raised", !.raised = rt.last_exc]
    /\ UNCHANGED outsideRetry

RetryNext ==
    \/ RetryCallOk
    \/ \E retryable \in BOOLEAN : RetryCallFails(retryable)
    \/ RetrySleep

SpecRetry == RetryInit /\ [][RetryNext]_vars

(***************************************************************************)
(* TelegramEmojiClient.create_or_extend.  Each remote operation is one     *)
(* retry_async call, seen from outside: it returns, or raises what its     *)
(* last attempt raised.  All calls name the same short_name.  tg.set is    *)
(* the number of stickers of that set on the server, -1 when there is no   *)
(* such set; its owner may delete it at any moment.                        *)
(***************************************************************************)
\* how a remote operation can fail: TelegramBadRequest naming an invalid
\* sticker set, another TelegramBadRequest, any other failure
Failures == {"not_found", "bad_request", "other"}

Outcomes == {"ok"} \cup Failures

\* what the server can answer to an operation on the set: it knows the set
\* or it does not; requests can fail otherwise at any time
Answers(set) == (IF set >= 0 THEN {"ok"} ELSE {"not_found"}) \cup {"bad_request", "other"}

\* the except clause: only an invalid-set TelegramBadRequest leads to creation
LeadsToCreate(out) == out = "not_found"

Raise(c, what) == [c EXCEPT !.pc = "raised", !.raised = what]

Called(c, name) == [c EXCEPT !.log = Append(@, name)]

CoeInit ==
    /\ CoreIdle /\ RetryIdle /\ NameIdle /\ TrackIdle /\ SettingsIdle /\ SweepIdle /\ TraceIdle /\ TextIdle /\ PayloadIdle /\ PlanIdle /\ SelectIdle /\ UsageIdle /\ RegistryIdle /\ NormIdle /\ TasksIdle /\ AssembleIdle
    /\ \E cl \in 1..MaxLimit, tl \in 1..MaxLimit, s \in -1..MaxExisting :
         tg = [NoCoe EXCEPT !.pc = "idle", !.creation_limit = cl, !.total_limit = tl,
                            !.set = s]

TooManyTiles_Never(n, creation_limit) == FALSE

\* create_or_extend: the test of its first statement
TooManyTiles(n, creation_limit) == n > creation_limit

\* create_or_extend(request, tile_paths) with n tiles, up to the uploads
CoeCall(n) ==
    /\ tg.pc \in {"idle", "returned", "raised"}
    /\ tg.calls < MaxCoeCalls
    /\ LET c == [tg EXCEPT !.calls = @ + 1, !.n = n, !.i = 1, !.first = "none",
                           !.before = tg.set, !.added = <<>>, !.log = <<>>,
                           !.raised = "none"]
       IN tg' = IF TooManyTiles(n, tg.creation_limit)
                THEN Raise(c, "too_many_tiles")
                ELSE [c EXCEPT !.pc = "upload"]
    /\ UNCHANGED outsideCoe

\* _upload_tiles: upload_sticker_file for the next tile
CoeUpload(out) ==
    /\ tg.pc = "upload"
    /\ LET c == Called(tg, "upload") IN
       tg' = IF out # "ok" THEN Raise(c, out)
             ELSE IF tg.i < tg.n THEN [c EXCEPT !.i = @ + 1]
             ELSE [c EXCEPT !.i = 1, !.pc = "get"]
    /\ UNCHANGED outsideCoe

\* the first get_sticker_set and the check of total_limit
CoeGet(out) ==
    /\ tg.pc = "get"
    /\ out \in Answers(tg.set)
    /\ LET c == [Called(tg, "get") EXCEPT !.first = out] IN
       tg' = IF out = "ok"
             THEN IF tg.set + tg.n > tg.total_limit
                  THEN Raise(c, "limit_exceeded")
                  ELSE [c EXCEPT !.pc = "add"]
             ELSE IF LeadsToCreate(out) THEN [c EXCEPT !.pc = "create"]
             ELSE Raise(c, out)
    /\ UNCHANGED outsideCoe

\* add_sticker_to_set for the next sticker
CoeAdd(out) ==
    /\ tg.pc = "add"
    /\ out \in Answers(tg.set)
    /\ LET c == Called(tg, "add") IN
       tg' = IF out = "ok"
             THEN [c EXCEPT !.set = @ + 1, !.added = Append(@, tg.i),
                            !.i = IF tg.i < tg.n THEN tg.i + 1 ELSE 1,
                            !.pc = IF tg.i < tg.n THEN "add" ELSE "reread"]
             ELSE IF LeadsToCreate(out) THEN [c EXCEPT !.pc = "create"]
             ELSE Raise(c, out)
    /\ UNCHANGED outsideCoe

\* get_sticker_set after the additions
CoeReread(out) ==
    /\ tg.pc = "reread"
    /\ out \in Answers(tg.set)
    /\ LET c == Called(tg, "get") IN
       tg' = IF out = "ok" THEN [c EXCEPT !.pc = "returned"]
             ELSE IF LeadsToCreate(out) THEN [c EXCEPT !.pc = "create"]
             ELSE Raise(c, out)
    /\ UNCHANGED outsideCoe

\* create_new_sticker_set with all uploaded tiles; a name in use is refused
CoeCreate(out) ==
    /\ tg.pc = "create"
    /\ out \in (IF tg.set < 0 THEN {"ok"} ELSE {}) \cup {"bad_request", "other"}
    /\ LET c == Called(tg, "create") IN
       tg' = IF out = "ok" THEN [c EXCEPT !.set = tg.n, !.pc = "readnew"]
             ELSE Raise(c, out)
    /\ UNCHANGED outsideCoe

\* get_sticker_set after the creation
CoeReadNew(out) ==
    /\ tg.pc = "readnew"
    /\ out \in Answers(tg.set)
    /\ LET c == Called(tg, "get") IN
       tg' = IF out = "ok" THEN [c EXCEPT !.pc = "returned"] ELSE Raise(c, out)
    /\ UNCHANGED outsideCoe

\* the owner of the set deletes it
OwnerDeletesSet ==
    /\ tg.pc # "none"
    /\ tg.set >= 0
    /\ tg.deletes < MaxDeletes
    /\ tg' = [tg EXCEPT !.set = -1, !.deletes = @ + 1]
    /\ UNCHANGED outsideCoe

CoeNext ==
    \/ \E n \in 1..MaxTiles : CoeCall(n)
    \/ \E out \in Outcomes : CoeUpload(out)
    \/ \E out \in Outcomes : CoeGet(out)
    \/ \E out \in Outcomes : CoeAdd(out)
    \/ \E out \in Outcomes : CoeReread(out)
    \/ \E out \in Outcomes : CoeCreate(out)
    \/ \E out \in Outcomes : CoeReadNew(out)
    \/ OwnerDeletesSet

SpecCoe == CoeInit /\ [][CoeNext]_vars

(***************************************************************************)
(* TelegramEmojiClient._build_short_name.  A string is a sequence of       *)
(* one-character strings.  Two requests of one user with the same image,   *)
(* grid and padding; requested_at is given by the place of the one digit   *)
(* of its timestamp that is "1" (0: none), the file marker by a letter.    *)
(***************************************************************************)
Repeat(ch, n) == [j \in 1..n |-> ch]

\* requested_at.strftime("%Y%m%d%H%M%S%f")
Timestamp(at) == [j \in 1..TimestampLen |-> IF j = at THEN "1" ELSE "0"]

MarkerOf(e) == Repeat(IF e = 1 THEN "a" ELSE "b", MarkerLen)

\* "emoji_{user_id}_{timestamp}_{rows}x{cols}_p{padding}_{entropy}"
Base(uidLen, at, e) ==
    <<"e", "m", "o", "j", "i", "_">> \o Repeat("7", uidLen) \o <<"_">> \o Timestamp(at)
        \o <<"_", "2", "x", "3", "_", "p", "1", "_">> \o MarkerOf(e)

\* "_by_{username}"
Suffix(nameLen) == <<"_", "b", "y", "_">> \o Repeat("n", nameLen)

Take(s, n) == SubSeq(s, 1, IF n < Len(s) THEN n ELSE Len(s))

RECURSIVE RStrip(_)
RStrip(s) == IF s # <<>> /\ s[Len(s)] = "_" THEN RStrip(SubSeq(s, 1, Len(s) - 1)) ELSE s

OrEmoji(s) == IF s = <<>> THEN <<"e", "m", "o", "j", "i">> ELSE s

\* the value _build_short_name returns; it raises when the suffix leaves no room
ShortName(uidLen, nameLen, at, e) ==
    LET suffix == Suffix(nameLen)
        max_base_len == ShortNameMax - Len(suffix)
    IN IF max_base_len <= 0 THEN <<>>
       ELSE OrEmoji(RStrip(Take(Base(uidLen, at, e), max_base_len))) \o suffix

NameInit ==
    /\ CoreIdle /\ RetryIdle /\ CoeIdle /\ TrackIdle /\ SettingsIdle /\ SweepIdle /\ TraceIdle /\ TextIdle /\ PayloadIdle /\ PlanIdle /\ SelectIdle /\ UsageIdle /\ RegistryIdle /\ NormIdle /\ TasksIdle /\ AssembleIdle
    /\ \E u \in 1..MaxUidLen, l \in 1..MaxNameLen, a1, a2 \in 0..TimestampLen,
          e1, e2 \in 1..2 :
         /\ a1 < a2 /\ e1 <= e2
         /\ sn = [NoNames EXCEPT !.pc = "asked", !.uidLen = u, !.nameLen = l,
                                 !.at = <<a1, a2>>, !.entropy = <<e1, e2>>]

BuildShortNames ==
    /\ sn.pc = "asked"
    /\ sn' = [sn EXCEPT !.pc = "built",
                        !.short_name = [j \in 1..2 |->
                            ShortName(sn.uidLen, sn.nameLen, sn.at[j], sn.entropy[j])]]
    /\ UNCHANGED outsideName

NameNext == BuildShortNames

SpecName == NameInit /\ [][NameNext]_vars

(***************************************************************************)
(* TrackingService over SQLiteTrackingRepository.  Each call runs in its   *)
(* own handler task; every repository method is one transaction, and the   *)
(* tasks interleave between two awaits.  link_id and event_id are the      *)
(* places of the rows in their tables.  A slug is a sequence: the name     *)
(* asked for, followed by the numeric suffixes appended to it.             *)
(***************************************************************************)
Clients == 1..MaxClients

TrackUsers == 1..MaxTrackUsers

\* list_links(include_deleted=False), as the set of their slugs
ActiveSlugs(links) == {links[l].slug : l \in {k \in DOMAIN links : ~links[k].deleted}}

\* get_link_by_id(link_id, include_deleted=False) finds a row
IsActive(links, l) == l \in DOMAIN links /\ ~links[l].deleted

\* resolve_slug_collision: the first of slug-2, slug-3, ... that is not in use
ResolveSlugCollision(slug, existing) ==
    LET free == {n \in 2..(Cardinality(existing) + 2) : Append(slug, n) \notin existing}
    IN Append(slug, CHOOSE n \in free : \A m \in free : n <= m)

\* the slug create_tracking_link settles on, given the slugs it has read
ChosenSlug(slug, existing) ==
    IF slug \in existing THEN ResolveSlugCollision(slug, existing) ELSE slug

\* has_user_started_link: any event row of the pair
HasStarted(events, l, u) ==
    \E e \in DOMAIN events : events[e].link = l /\ events[e].user = u

Idle(c) == trk.call[c].pc = "idle"

TrackInit ==
    /\ CoreIdle /\ RetryIdle /\ CoeIdle /\ NameIdle /\ SettingsIdle /\ SweepIdle /\ TraceIdle /\ TextIdle /\ PayloadIdle /\ PlanIdle /\ SelectIdle /\ UsageIdle /\ RegistryIdle /\ NormIdle /\ TasksIdle /\ AssembleIdle
    /\ trk = NoTracking

\* A slug is <<s, n1, n2, ...>>: the name s followed by the suffixes -n1,
\* -n2, ...  Name s is a valid slug of MAX_SLUG_LENGTH + 1 - s characters.
BaseLength(s) == MAX_SLUG_LENGTH + 1 - s

Digits(n) == IF n < 10 THEN 1 ELSE 2

RECURSIVE SuffixLength(_)
SuffixLength(ns) == IF ns = <<>> THEN 0 ELSE 1 + Digits(Head(ns)) + SuffixLength(Tail(ns))

\* len(slug)
SlugLength(slug) == BaseLength(slug[1]) + SuffixLength(Tail(slug))

\* validate_slug, for slugs made of a valid name and numeric suffixes
ValidateSlug(slug) == SlugLength(slug) >= 1 /\ SlugLength(slug) <= MAX_SLUG_LENGTH

\* the slugs a caller passes: a name, or the slug of a stored link
AskedSlugs(links) == {<<s>> : s \in 1..MaxSlugs} \cup {links[l].slug : l \in DOMAIN links}

\* create_tracking_link up to the return of _get_all_active_slugs; a slug
\* that validate_slug refuses raises ValueError
CreateRead(c, s) ==
    /\ Idle(c)
    /\ ValidateSlug(s) =>
         Len(trk.links) + Cardinality({d \in Clients : trk.call[d].op = "create"}) < MaxLinks
    /\ trk' = IF ~ValidateSlug(s)
              THEN [trk EXCEPT !.made = [asked |-> s, chosen |-> <<>>, raised |-> TRUE]]
              ELSE [trk EXCEPT
                      !.made = [asked |-> s, chosen |-> ChosenSlug(s, ActiveSlugs(trk.links)),
                                raised |-> FALSE],
                      !.call[c] =
                          [NoCall EXCEPT !.op = "create", !.pc = "insert",
                                         !.slug = ChosenSlug(s, ActiveSlugs(trk.links))]]
    /\ UNCHANGED outsideTrack

\* create_tracking_link: repository.create_link
CreateInsert(c) ==
    /\ trk.call[c].op = "create" /\ trk.call[c].pc = "insert"
    /\ trk' = [trk EXCEPT !.links = Append(@, [slug |-> trk.call[c].slug, deleted |-> FALSE]),
                          !.call[c] = NoCall]
    /\ UNCHANGED outsideTrack

\* soft_delete_link: UPDATE ... WHERE link_id = ? AND deleted_at IS NULL
RowsAfterSoftDelete(links, l) ==
    IF IsActive(links, l) THEN [links EXCEPT ![l].deleted = TRUE] ELSE links

\* delete_link: returns whether a row was updated
DeleteLink(c, l) ==
    /\ Idle(c)
    /\ l \in DOMAIN trk.links
    /\ trk' = [trk EXCEPT !.links = RowsAfterSoftDelete(trk.links, l),
                          !.del = [link |-> l, returned |-> IsActive(trk.links, l)]]
    /\ UNCHANGED outsideTrack

\* the payloads of a /start: one that decode_payload refuses, and those of
\* the link ids 1..MaxLinks and 2^63 + 1..2^63 + MaxLinks
Payloads ==
    {NoPayload} \cup
    {[decodable |-> TRUE, wide |-> w, n |-> n] : w \in BOOLEAN, n \in 1..MaxLinks}

\* sqlite3 binds a Python int as a 64-bit signed INTEGER and raises
\* OverflowError for any other
FitsSqliteInteger(p) == ~p.wide

\* the payload decodes to the link_id of an active link
NamesActive(links, p) == p.decodable /\ FitsSqliteInteger(p) /\ IsActive(links, p.n)

\* what handle_start does up to the return of get_link_by_id
LookupResult(links, p) ==
    IF ~p.decodable THEN "no_match"
    ELSE IF ~FitsSqliteInteger(p) THEN "raised"
    ELSE IF IsActive(links, p.n) THEN "found"
    ELSE "no_match"

\* handle_start: decode_payload and get_link_by_id
StartLookup(c, p, u) ==
    /\ Idle(c)
    /\ Len(trk.events) + Cardinality({d \in Clients : trk.call[d].op = "start"}) < MaxEvents
    /\ LET res == LookupResult(trk.links, p)
           seen == [trk EXCEPT !.last = [payload |-> p, active |-> NamesActive(trk.links, p),
                                         result |-> res]]
       IN trk' = IF res = "found"
                 THEN [seen EXCEPT !.call[c] =
                         [NoCall EXCEPT !.op = "start", !.pc = "check", !.link = p.n,
                                        !.user = u]]
                 ELSE seen
    /\ UNCHANGED outsideTrack

\* handle_start: has_user_started_link
StartCheck(c) ==
    /\ trk.call[c].op = "start" /\ trk.call[c].pc = "check"
    /\ trk' = [trk EXCEPT !.call[c].pc = "log",
                          !.call[c].has_started =
                              HasStarted(trk.events, trk.call[c].link, trk.call[c].user)]
    /\ UNCHANGED outsideTrack

\* handle_start: log_event with first_start = not has_started
StartLog(c) ==
    /\ trk.call[c].op = "start" /\ trk.call[c].pc = "log"
    /\ trk' = [trk EXCEPT !.events = Append(@, [link |-> trk.call[c].link,
                                                user |-> trk.call[c].user,
                                                event_type |-> "start",
                                                first_start |-> ~trk.call[c].has_started]),
                          !.call[c] = NoCall]
    /\ UNCHANGED outsideTrack

\* log_visit: log_event with first_start = False
LogVisit(c, l, u) ==
    /\ Idle(c)
    /\ l \in DOMAIN trk.links
    /\ Len(trk.events) + Cardinality({d \in Clients : trk.call[d].op = "start"}) < MaxEvents
    /\ trk' = [trk EXCEPT !.events = Append(@, [link |-> l, user |-> u,
                                                event_type |-> "visit",
                                                first_start |-> FALSE])]
    /\ UNCHANGED outsideTrack

TrackNext ==
    \/ \E c \in Clients, s \in AskedSlugs(trk.links) : CreateRead(c, s)
    \/ \E c \in Clients : CreateInsert(c)
    \/ \E c \in Clients, l \in 1..MaxLinks : DeleteLink(c, l)
    \/ \E c \in Clients, p \in Payloads, u \in TrackUsers : StartLookup(c, p, u)
    \/ \E c \in Clients : StartCheck(c)
    \/ \E c \in Clients : StartLog(c)
    \/ \E c \in Clients, l \in 1..MaxLinks, u \in TrackUsers : LogVisit(c, l, u)

SpecTrack == TrackInit /\ [][TrackNext]_vars

(***************************************************************************)
(* UserSettingsService over the user_settings table.  A grid is a pair     *)
(* <<rows, cols>>; the table keeps it encoded as "<rows>x<cols>".  A row   *)
(* is <<>> when the user has none.  The rows of the initial state were     *)
(* written under any earlier configuration.                                *)
(***************************************************************************)
SettingsUsers == {1, 2}

Grids == (1..MaxGridRows) \X (1..2)

\* update stores the padding as it is given: two values tell a row from another
Paddings == {0, 1}

\* EmojiGridOption.tiles
Tiles(grid) == grid[1] * grid[2]

\* EmojiGridOption.encode and decode
Encode(grid) == <<grid[1], "x", grid[2]>>

Decode(text) == <<text[1], text[3]>>

\* the row upsert_user_settings writes
RowOf(grid, padding) == [default_grid |-> Encode(grid), default_padding |-> padding]

EnsureDefaultGrid_Unchecked(default_grid, grid_limit) == default_grid

\* _ensure_default_grid
EnsureDefaultGrid(default_grid, grid_limit) ==
    IF Tiles(default_grid) <= grid_limit THEN default_grid ELSE <<1, 1>>

\* get: the stored grid is over the limit
NeedsRepair(row, grid_limit) == row # <<>> /\ Tiles(Decode(row.default_grid)) > grid_limit

\* what get(user_id) returns, as <<grid, padding>>
GetResult(s, u) ==
    LET row == s.store[u] IN
    IF row = <<>>
    THEN <<EnsureDefaultGrid(s.default_grid, s.grid_limit), s.default_padding>>
    ELSE IF NeedsRepair(row, s.grid_limit)
    THEN <<EnsureDefaultGrid(s.default_grid, s.grid_limit), row.default_padding>>
    ELSE <<Decode(row.default_grid), row.default_padding>>

\* the table after get(user_id): a repaired row is written back
StoreAfterGet(s, u) ==
    IF NeedsRepair(s.store[u], s.grid_limit)
    THEN [s.store EXCEPT ![u] = RowOf(GetResult(s, u)[1], GetResult(s, u)[2])]
    ELSE s.store

UpdateRejects_Never(grid, grid_limit) == FALSE

\* update: the limit test
UpdateRejects(grid, grid_limit) == Tiles(grid) > grid_limit

SettingsInit ==
    /\ CoreIdle /\ RetryIdle /\ CoeIdle /\ NameIdle /\ TrackIdle /\ SweepIdle /\ TraceIdle /\ TextIdle /\ PayloadIdle /\ PlanIdle /\ SelectIdle /\ UsageIdle /\ RegistryIdle /\ NormIdle /\ TasksIdle /\ AssembleIdle
    /\ \E st \in [SettingsUsers -> {<<>>} \cup {RowOf(g, 0) : g \in Grids}],
          lim \in 1..MaxGridLimit, dg \in Grids :
         us = [NoSettings EXCEPT !.store = st, !.grid_limit = lim, !.default_grid = dg]

\* UserSettingsService.get(user_id)
SettingsGet(u) ==
    /\ us.store # <<>>
    /\ us' = [us EXCEPT !.store = StoreAfterGet(us, u),
                        !.last = [op |-> "get", user |-> u, stored |-> us.store[u],
                                  grid |-> GetResult(us, u)[1],
                                  padding |-> GetResult(us, u)[2], raised |-> FALSE]]
    /\ UNCHANGED outsideSettings

\* UserSettingsService.update(user_id, grid, padding)
SettingsUpdate(u, grid, padding) ==
    /\ us.store # <<>>
    /\ us' = IF UpdateRejects(grid, us.grid_limit)
             THEN [us EXCEPT !.last = [op |-> "update", user |-> u, stored |-> us.store[u],
                                       grid |-> grid, padding |-> padding, raised |-> TRUE]]
             ELSE [us EXCEPT !.store[u] = RowOf(grid, padding),
                             !.last = [op |-> "update", user |-> u, stored |-> us.store[u],
                                       grid |-> grid, padding |-> padding, raised |-> FALSE]]
    /\ UNCHANGED outsideSettings

SettingsNext ==
    \/ \E u \in SettingsUsers : SettingsGet(u)
    \/ \E u \in SettingsUsers, g \in Grids, p \in Paddings : SettingsUpdate(u, g, p)

SpecSettings == SettingsInit /\ [][SettingsNext]_vars

(***************************************************************************)
(* TempFileManager.  An entry of base_dir is absent, a file named tmp_...  *)
(* (written by write_bytes or by slice_into_tiles next to the source), a   *)
(* file with another name, or a directory; old means that its mtime is     *)
(* before the cutoff of a sweep.  The sweeper suspends at every            *)
(* asyncio.to_thread, and the event loop runs job cleanup meanwhile.       *)
(***************************************************************************)
EntryIds == 1..MaxEntries

Absent == [kind |-> "absent", old |-> FALSE]

Kinds == {"tmp", "other", "dir"}

SweepRunning == sw.pc \in {"sleep", "next", "stat_done", "remove"}

SweepInit ==
    /\ CoreIdle /\ RetryIdle /\ CoeIdle /\ NameIdle /\ TrackIdle /\ SettingsIdle /\ TraceIdle /\ TextIdle /\ PayloadIdle /\ PlanIdle /\ SelectIdle /\ UsageIdle /\ RegistryIdle /\ NormIdle /\ TasksIdle /\ AssembleIdle
    /\ sw = [NoSweep EXCEPT !.entries = [e \in EntryIds |-> Absent], !.pc = "sleep"]

\* slice_into_tiles, a mkdir or any other writer creates an entry; a tmp_
\* name carries a uuid4 or the stem of one and is never given twice, the
\* other names can come back
CreateEntry(e, kind) ==
    /\ sw.pc # "none"
    /\ sw.entries[e] = Absent
    /\ e \notin sw.used
    /\ kind = "tmp" => e \notin sw.plain
    /\ sw' = [sw EXCEPT !.entries[e] = [kind |-> kind, old |-> FALSE],
                        !.used = IF kind = "tmp" THEN @ \cup {e} ELSE @,
                        !.plain = IF kind = "tmp" THEN @ ELSE @ \cup {e}]
    /\ UNCHANGED outsideSweep

\* choose_padding: write_bytes writes the source file into base_dir and the
\* request naming it is submitted to the queue
WriteSource(e) ==
    /\ sw.pc # "none"
    /\ sw.entries[e] = Absent
    /\ e \notin sw.used \cup sw.plain
    /\ sw' = [sw EXCEPT !.entries[e] = [kind |-> "tmp", old |-> FALSE],
                        !.used = @ \cup {e}, !.live = @ \cup {e}]
    /\ UNCHANGED outsideSweep

\* write_bytes(..., subdir = d) for a directory that exists: mkdir changes
\* nothing, the new file in it sets the mtime of the directory
WriteIntoSubdir(e) ==
    /\ sw.pc # "none"
    /\ sw.entries[e].kind = "dir"
    /\ sw.entries[e].old
    /\ sw' = [sw EXCEPT !.entries[e].old = FALSE]
    /\ UNCHANGED outsideSweep

\* time passes: the entry is now older than the retention
EntryAges(e) ==
    /\ sw.pc # "none"
    /\ sw.entries[e] # Absent /\ ~sw.entries[e].old
    /\ sw' = [sw EXCEPT !.entries[e].old = TRUE]
    /\ UNCHANGED outsideSweep

\* EmojiPackService.process, finally block: unlink(missing_ok = True) of a
\* tile or of the source, rmtree of a job directory
JobCleanupRemoves(e) ==
    /\ sw.pc # "none"
    /\ sw.entries[e].kind \in {"tmp", "dir"}
    /\ sw' = [sw EXCEPT !.entries[e] = Absent, !.live = @ \ {e}]
    /\ UNCHANGED outsideSweep

\* _cleanup_loop: the sleep is over, cleanup starts and iterdir lists base_dir
SweepStart ==
    /\ sw.pc = "sleep"
    /\ sw.sweeps < MaxSweeps
    /\ sw' = [sw EXCEPT !.pc = "next",
                        !.listing = {e \in EntryIds : sw.entries[e] # Absent}]
    /\ UNCHANGED outsideSweep

\* cleanup: path.stat in a thread; FileNotFoundError is caught and the entry
\* skipped
SweepStat(e) ==
    /\ sw.pc = "next"
    /\ e \in sw.listing
    /\ sw' = IF sw.entries[e] = Absent
             THEN [sw EXCEPT !.listing = @ \ {e}]
             ELSE [sw EXCEPT !.listing = @ \ {e}, !.pc = "stat_done", !.cur = e,
                             !.curOld = sw.entries[e].old]
    /\ UNCHANGED outsideSweep

\* cleanup: the listing is exhausted, the loop goes back to sleep
SweepEnd ==
    /\ sw.pc = "next"
    /\ sw.listing = {}
    /\ sw' = [sw EXCEPT !.pc = "sleep", !.sweeps = @ + 1]
    /\ UNCHANGED outsideSweep

\* the branch cleanup takes after stat: is_dir() is false for a vanished path
Branch(entry, old) ==
    IF entry.kind = "dir"
    THEN IF old THEN "rmtree" ELSE "skip"
    ELSE IF entry.kind \in {"tmp", "absent"} /\ old THEN "unlink" ELSE "skip"

\* cleanup: is_dir and the name test, on the resumed task
SweepDecide ==
    /\ sw.pc = "stat_done"
    /\ LET b == Branch(sw.entries[sw.cur], sw.curOld) IN
       sw' = IF b = "skip" THEN [sw EXCEPT !.pc = "next", !.cur = 0, !.curOld = FALSE]
             ELSE [sw EXCEPT !.pc = "remove", !.branch = b]
    /\ UNCHANGED outsideSweep

\* path.unlink() raises FileNotFoundError for a vanished path;
\* shutil.rmtree(path, True) ignores errors
RemoveRaises(branch, entry) == branch = "unlink" /\ entry = Absent

\* cleanup: the rmtree or unlink running in a thread; an exception leaves
\* cleanup and _cleanup_loop, which catches CancelledError only
SweepRemove ==
    /\ sw.pc = "remove"
    /\ sw' = IF RemoveRaises(sw.branch, sw.entries[sw.cur])
             THEN [sw EXCEPT !.pc = "failed", !.raised = "FileNotFoundError",
                             !.branch = "none"]
             ELSE [sw EXCEPT !.pc = "next", !.entries[sw.cur] = Absent, !.cur = 0,
                             !.curOld = FALSE, !.branch = "none",
                             !.removed = [kind |-> sw.entries[sw.cur].kind,
                                          old |-> sw.entries[sw.cur].old,
                                          live |-> sw.cur \in sw.live]]
    /\ UNCHANGED outsideSweep

\* stop(): cancels the task and awaits it
SweepStop ==
    /\ sw.pc # "none"
    /\ ~sw.stopped
    /\ sw' = [sw EXCEPT !.stopped = TRUE,
                        !.pc = IF SweepRunning THEN "cancelled" ELSE @]
    /\ UNCHANGED outsideSweep

SweepNext ==
    \/ \E e \in EntryIds, k \in Kinds : CreateEntry(e, k)
    \/ \E e \in EntryIds : WriteSource(e)
    \/ \E e \in EntryIds : WriteIntoSubdir(e)
    \/ \E e \in EntryIds : EntryAges(e)
    \/ \E e \in EntryIds : JobCleanupRemoves(e)
    \/ SweepStart
    \/ \E e \in EntryIds : SweepStat(e)
    \/ SweepEnd
    \/ SweepDecide
    \/ SweepRemove
    \/ SweepStop

SpecSweep == SweepInit /\ [][SweepNext]_vars

(***************************************************************************)
(* AntiSpamGuard observed call by call, with a clock of half seconds.  The *)
(* stated trace is that of scenario S5: try_acquire at 0 s and 0.5 s,      *)
(* release at 1 s, try_acquire at 1.5 s and 3.5 s.                         *)
(***************************************************************************)
TraceUsers == {1, 2}

StatedTrace ==
    << [op |-> "try_acquire", t |-> 0], [op |-> "try_acquire", t |-> 1],
       [op |-> "release", t |-> 2], [op |-> "try_acquire", t |-> 3],
       [op |-> "try_acquire", t |-> 7] >>

StatedResults == << "true", "false", "-", "false", "true" >>

TraceLen == Len(StatedTrace)

Horizon == StatedTrace[TraceLen].t

\* the stated machine: a user without state, or one neither busy nor within
\* the cooldown, is accepted
MachineAccepts(pre, t) ==
    pre = NoState \/ (~pre.busy /\ t - pre.last_action >= CooldownTicks)

\* the state of the user after a call of the stated machine
MachineAfter(op, pre, t) ==
    IF op = "release"
    THEN [busy |-> FALSE, last_action |-> t]
    ELSE [busy |-> IF MachineAccepts(pre, t) THEN TRUE ELSE pre.busy, last_action |-> t]

ResultText(b) == IF b THEN "true" ELSE "false"

Observed(op, u, post, res) ==
    [tr EXCEPT !.log = Append(@, [op |-> op, u |-> u, t |-> now, res |-> res]),
               !.last = [pre |-> states[u], post |-> post[u],
                         othersKept |-> \A v \in Users \ {u} : post[v] = states[v]]]

TraceInit ==
    /\ CoreIdle /\ RetryIdle /\ CoeIdle /\ NameIdle /\ TrackIdle /\ SettingsIdle /\ SweepIdle /\ TextIdle /\ PayloadIdle /\ PlanIdle /\ SelectIdle /\ UsageIdle /\ RegistryIdle /\ NormIdle /\ TasksIdle /\ AssembleIdle
    /\ tr = [NoTrace EXCEPT !.ticks = 2]

\* half a second passes
TraceTick ==
    /\ tr.ticks = 2
    /\ now < Horizon
    /\ now' = now + 1
    /\ UNCHANGED <<states, grants, releasedAt, tr>>
    /\ UNCHANGED outsideTrace

\* try_acquire(u), its result observed
TraceTryAcquire(u) ==
    /\ tr.ticks = 2
    /\ Len(tr.log) < TraceLen
    /\ TryAcquireCall(u)
    /\ tr' = Observed("try_acquire", u, StatesAfterTryAcquire(states, u, now),
                      ResultText(TryAcquireResult(states, u, now)))
    /\ UNCHANGED outsideTrace

\* release(u)
TraceRelease(u) ==
    /\ tr.ticks = 2
    /\ Len(tr.log) < TraceLen
    /\ ReleaseCall(u)
    /\ tr' = Observed("release", u, StatesAfterRelease(states, u, now), "-")
    /\ UNCHANGED outsideTrace

TraceNext ==
    \/ TraceTick
    \/ \E u \in TraceUsers : TraceTryAcquire(u)
    \/ \E u \in TraceUsers : TraceRelease(u)

SpecTrace == TraceInit /\ [][TraceNext]_vars

(***************************************************************************)
(* One user sending images, pressing the grid and padding buttons and      *)
(* sending text, which handle_text admits through the same guard.          *)
(***************************************************************************)
TheUser == 1

\* handle_text: try_acquire; when rejected the handler answers and returns
TextMessage(u) ==
    /\ Admitted(u)
    /\ txt' = IF TryAcquireResult(states, u, now) THEN txt \cup {u} ELSE txt
    /\ UNCHANGED outsideText

\* handle_text: the text is processed and answered (or that has failed), and
\* the guard is released in `finally`
TextDone(u) ==
    /\ u \in txt
    /\ Released(u)
    /\ txt' = txt \ {u}
    /\ UNCHANGED outsideText

UserNext ==
    \/ Tick
    \/ (TryAcquireResult(states, TheUser, now) => nextReq < MaxUserRequests)
         /\ OnImage(TheUser, 1)
    \/ ChooseGrid(TheUser)
    \/ ChoosePadding(TheUser)
    \/ \E r \in Requests : Finalize(r)
    \/ WorkerNext
    \/ TextMessage(TheUser)
    \/ TextDone(TheUser)

\* the bot serving one user
SpecUser == StartedInit /\ [][UserNext]_vars

(***************************************************************************)
(* payload_encoder.  Bytes are numbers 0..255; a character of the base64url *)
(* alphabet is its index 0..63 and PadChar stands for "=".                  *)
(***************************************************************************)
PadChar == 64

RECURSIVE ToBytes(_, _)
\* int.to_bytes(k, byteorder='big')
ToBytes(n, k) == IF k = 0 THEN <<>> ELSE Append(ToBytes(n \div 256, k - 1), n % 256)

RECURSIVE FromBytes(_)
\* int.from_bytes(bytes, byteorder='big')
FromBytes(bs) ==
    IF bs = <<>> THEN 0 ELSE FromBytes(SubSeq(bs, 1, Len(bs) - 1)) * 256 + bs[Len(bs)]

RECURSIVE BitLength(_)
\* int.bit_length()
BitLength(n) == IF n = 0 THEN 0 ELSE 1 + BitLength(n \div 2)

\* encode_link_id: the bytes of the link_id
LinkBytes(link_id) ==
    IF link_id = 0 THEN <<0>> ELSE ToBytes(link_id, (BitLength(link_id) + 7) \div 8)

ByteBits(b) == [i \in 1..8 |-> (b \div (2 ^ (8 - i))) % 2]

RECURSIVE BitsOfBytes(_)
BitsOfBytes(bs) == IF bs = <<>> THEN <<>> ELSE ByteBits(Head(bs)) \o BitsOfBytes(Tail(bs))

BitAt(bits, i) == IF i <= Len(bits) THEN bits[i] ELSE 0

RECURSIVE BitsValue(_, _, _)
\* the number written by `n` bits from position `from`, zero bits past the end
BitsValue(bits, from, n) ==
    IF n = 0 THEN 0 ELSE BitsValue(bits, from, n - 1) * 2 + BitAt(bits, from + n - 1)

\* base64.urlsafe_b64encode: 6 bits a character, "=" up to a multiple of 4
B64Encode(bs) ==
    LET bits == BitsOfBytes(bs)
        n == (Len(bits) + 5) \div 6
        pad == (4 - (n % 4)) % 4
    IN [i \in 1..n |-> BitsValue(bits, 6 * i - 5, 6)] \o [i \in 1..pad |-> PadChar]

RECURSIVE RStripPad(_)
\* .rstrip(b'=')
RStripPad(cs) ==
    IF cs # <<>> /\ cs[Len(cs)] = PadChar THEN RStripPad(SubSeq(cs, 1, Len(cs) - 1)) ELSE cs

CharBits(c) == [i \in 1..6 |-> (c \div (2 ^ (6 - i))) % 2]

RECURSIVE BitsOfChars(_)
BitsOfChars(cs) == IF cs = <<>> THEN <<>> ELSE CharBits(Head(cs)) \o BitsOfChars(Tail(cs))

\* raising, and returning a value
Raises == [raised |-> TRUE, value |-> <<>>]
Returns(v) == [raised |-> FALSE, value |-> v]

\* base64.urlsafe_b64decode of a padded text: the whole bytes of its
\* characters; it raises when one character is left over
B64Decode(cs) ==
    LET data == SelectSeq(cs, LAMBDA c : c # PadChar)
        bits == BitsOfChars(data)
    IN IF Len(data) % 4 = 1 THEN Raises
       ELSE Returns([i \in 1..(Len(bits) \div 8) |-> BitsValue(bits, 8 * i - 7, 8)])

\* encode_link_id for a salt and a timestamp
EncodeLinkId(link_id, salt, timestamp) ==
    LET encoded == RStripPad(B64Encode(salt \o timestamp \o LinkBytes(link_id)))
    IN IF link_id < 0 \/ Len(encoded) > MAX_PAYLOAD_LENGTH THEN Raises ELSE Returns(encoded)

LinkBytesOf_OneLess(combined) ==
    SubSeq(combined, SALT_BYTES + TIMESTAMP_BYTES + 2, Len(combined))

\* decode_payload: the bytes after salt and timestamp
LinkBytesOf(combined) == SubSeq(combined, SALT_BYTES + TIMESTAMP_BYTES + 1, Len(combined))

\* decode_payload; every failure is raised as ValueError
DecodePayload(payload) ==
    IF payload = <<>> \/ Len(payload) > MAX_PAYLOAD_LENGTH THEN Raises
    ELSE LET padding == (4 - (Len(payload) % 4)) % 4
             combined == B64Decode(payload \o [i \in 1..padding |-> PadChar])
         IN IF combined.raised THEN Raises
            ELSE IF Len(combined.value) < SALT_BYTES + TIMESTAMP_BYTES THEN Raises
            ELSE Returns(FromBytes(LinkBytesOf(combined.value)))

\* the link ids tried: the small ones and those around a change of length
LinkIds == 0..MaxLinkId \cup {255, 256, 65535, 65536, 16777215, 16777216, 2147483647}

\* secrets.token_bytes(4) and the 32-bit timestamp, as bytes
FourBytes == {<<0, 0, 0, 0>>, <<255, 255, 255, 255>>, <<1, 35, 69, 103>>, <<250, 0, 61, 128>>}

PayloadInit ==
    /\ CoreIdle /\ RetryIdle /\ CoeIdle /\ NameIdle /\ TrackIdle /\ SettingsIdle /\ SweepIdle /\ TraceIdle /\ TextIdle /\ PlanIdle /\ SelectIdle /\ UsageIdle /\ RegistryIdle /\ NormIdle /\ TasksIdle /\ AssembleIdle
    /\ \E id \in LinkIds, salt \in FourBytes, ts \in FourBytes :
         pe = [NoEncoding EXCEPT !.pc = "start", !.link_id = id, !.salt = salt,
                                 !.timestamp = ts]

\* encode_link_id(link_id)
PayloadEncode ==
    /\ pe.pc = "start"
    /\ pe' = [pe EXCEPT !.pc = "encoded",
                        !.payload = EncodeLinkId(pe.link_id, pe.salt, pe.timestamp)]
    /\ UNCHANGED outsidePayload

\* decode_payload(payload)
PayloadDecode ==
    /\ pe.pc = "encoded"
    /\ ~pe.payload.raised
    /\ pe' = [pe EXCEPT !.pc = "decoded", !.decoded = DecodePayload(pe.payload.value)]
    /\ UNCHANGED outsidePayload

PayloadNext == PayloadEncode \/ PayloadDecode

SpecPayload == PayloadInit /\ [][PayloadNext]_vars

(***************************************************************************)
(* suggest_grids.  A float is m * 2^e with m = 0 or                        *)
(* 2^(MantissaBits-1) <= m < 2^MantissaBits; every operation rounds its    *)
(* exact result to the nearest float, ties to even.                        *)
(***************************************************************************)
FloatZero == [m |-> 0, e |-> 0]

RECURSIVE RoundScaled(_, _, _)
\* the float nearest to (a / b) * 2^e, for a >= 0 and b > 0
RoundScaled(a, b, e) ==
    IF a = 0 THEN FloatZero
    ELSE IF a < b * 2 ^ (MantissaBits - 1) THEN RoundScaled(2 * a, b, e - 1)
    ELSE IF a >= b * 2 ^ MantissaBits THEN RoundScaled(a, 2 * b, e + 1)
    ELSE LET q == a \div b
             r == a % b
             m == IF 2 * r > b \/ (2 * r = b /\ q % 2 = 1) THEN q + 1 ELSE q
         IN IF m = 2 ^ MantissaBits THEN [m |-> 2 ^ (MantissaBits - 1), e |-> e + 1]
            ELSE [m |-> m, e |-> e]

\* x / y of two floats, y # 0
FloatDiv(x, y) == RoundScaled(x.m, y.m, x.e - y.e)

\* abs(x - 1.0)
AbsMinusOne(x) ==
    IF x.m = 0 THEN RoundScaled(1, 1, 0)
    ELSE IF x.e >= 0 THEN RoundScaled(x.m * 2 ^ x.e - 1, 1, 0)
    ELSE LET one == 2 ^ (0 - x.e)
         IN RoundScaled(IF x.m >= one THEN x.m - one ELSE one - x.m, 1, x.e)

\* x < y for floats that are not negative
FloatLess(x, y) ==
    IF x.m = 0 THEN y.m # 0
    ELSE y.m # 0 /\ (x.e < y.e \/ (x.e = y.e /\ x.m < y.m))

\* score = abs((width / cols) / (height / rows) - 1.0)
Score(width, height, option) ==
    AbsMinusOne(FloatDiv(RoundScaled(width, option[2], 0), RoundScaled(height, option[1], 0)))

\* the candidates in the order of the two loops
Candidates(max_tiles) ==
    LET side == Min(MaxGridSide, max_tiles)
        all == [k \in 1..(side * side) |-> <<((k - 1) \div side) + 1, ((k - 1) % side) + 1>>]
    IN SelectSeq(all, LAMBDA option : Tiles(option) <= max_tiles)

RECURSIVE Scored(_, _, _)
\* candidates.append((score, option)) for every candidate
Scored(width, height, options) ==
    IF options = <<>> THEN <<>>
    ELSE <<[score |-> Score(width, height, Head(options)), option |-> Head(options)]>>
         \o Scored(width, height, Tail(options))

\* the sort key (score, tiles) of the first item is less than the second's
KeyLess(a, b) ==
    \/ FloatLess(a.score, b.score)
    \/ a.score = b.score /\ Tiles(a.option) < Tiles(b.option)

RECURSIVE InsertByKey(_, _)
\* the item put after the items whose key is not greater
InsertByKey(sorted, item) ==
    IF sorted = <<>> THEN <<item>>
    ELSE IF KeyLess(item, Head(sorted)) THEN <<item>> \o sorted
    ELSE <<Head(sorted)>> \o InsertByKey(Tail(sorted), item)

RECURSIVE SortByKey(_, _)
SortByKey(sorted, rest) ==
    IF rest = <<>> THEN sorted ELSE SortByKey(InsertByKey(sorted, Head(rest)), Tail(rest))

\* candidates.sort(key=(score, tiles)): a stable sort
SortedCandidates(width, height, max_tiles) ==
    LET sorted == SortByKey(<<>>, Scored(width, height, Candidates(max_tiles)))
    IN [k \in 1..Len(sorted) |-> sorted[k].option]

RECURSIVE TakeUnique(_, _, _)
\* the loop that fills `unique` and stops at `limit` options
TakeUnique(candidates, unique, limit) ==
    IF candidates = <<>> THEN unique
    ELSE LET option == Head(candidates)
             u == IF \E i \in DOMAIN unique : unique[i] = option THEN unique
                  ELSE Append(unique, option)
         IN IF Len(u) >= limit THEN u ELSE TakeUnique(Tail(candidates), u, limit)

\* suggest_grids(width, height, max_tiles=max_tiles, limit=limit)
SuggestGrids(width, height, max_tiles, limit) ==
    LET unique == TakeUnique(SortedCandidates(width, height, max_tiles), <<>>, limit)
    IN IF unique = <<>> THEN [options |-> <<<<1, 1>>>>, fallback |-> <<1, 1>>]
       ELSE [options |-> unique, fallback |-> unique[1]]

\* max_tiles as tried: the small ones and one past the side of ten
PlanTiles == 1..MaxPlanTiles \cup {12}

PlanInit ==
    /\ CoreIdle /\ RetryIdle /\ CoeIdle /\ NameIdle /\ TrackIdle /\ SettingsIdle /\ SweepIdle /\ TraceIdle /\ TextIdle /\ PayloadIdle /\ SelectIdle /\ UsageIdle /\ RegistryIdle /\ NormIdle /\ TasksIdle /\ AssembleIdle
    /\ \E w \in 1..MaxSide, h \in 1..MaxSide, mt \in PlanTiles, l \in 1..MaxPlanLimit :
         gp = [NoPlan EXCEPT !.pc = "start", !.width = w, !.height = h,
                             !.max_tiles = mt, !.limit = l]

\* the call of suggest_grids
PlanSuggest ==
    /\ gp.pc = "start"
    /\ LET plan == SuggestGrids(gp.width, gp.height, gp.max_tiles, gp.limit)
       IN gp' = [gp EXCEPT !.pc = "returned", !.options = plan.options,
                           !.fallback = plan.fallback]
    /\ UNCHANGED outsidePlan

PlanNext == PlanSuggest

SpecPlan == PlanInit /\ [][PlanNext]_vars

(***************************************************************************)
(* The emoji dialogue, as far as the selection goes: what on_image offers, *)
(* what choose_grid and choose_padding accept, write to scratch and submit. *)
(* The guard has admitted the user.  A grid is <<rows, cols>>; callback     *)
(* data that int() or decode cannot read raises in the handler's first line *)
(* and is left out.                                                         *)
(***************************************************************************)
LimitTiles == Min(sel.max_tiles, sel.creation_limit)

\* on_image: plan_options and fallback under grid_option_cap (0 is None)
PlanOptions(plan, grid_option_cap) ==
    LET capped == SelectSeq(plan.options, LAMBDA option : Tiles(option) <= grid_option_cap)
    IN IF grid_option_cap # 0 /\ capped # <<>>
       THEN [options |-> capped, fallback |-> capped[1]]
       ELSE plan

\* user_settings.get: the stored settings, the configured ones when none
SettingsOf(settings) ==
    IF settings = <<>>
    THEN [default_grid |-> EnsureDefaultGrid(<<1, 1>>, LimitTiles),
          default_padding |-> ConfiguredPadding]
    ELSE [default_grid |-> Decode(settings[1].default_grid),
          default_padding |-> settings[1].default_padding]

\* on_image after the guard: the options of the image, the FSM data
SelOnImage(width, height) ==
    LET plan == PlanOptions(SuggestGrids(width, height, LimitTiles, DefaultPlanLimit),
                            sel.grid_option_cap)
        settings == SettingsOf(sel.settings)
        offered == \E i \in DOMAIN plan.options : plan.options[i] = settings.default_grid
        default_grid == IF Tiles(settings.default_grid) > LimitTiles \/ ~offered
                        THEN plan.fallback ELSE settings.default_grid
    IN
    /\ sel.images < MaxSelImages
    /\ sel' = [sel EXCEPT !.state = "wait_grid",
                          !.suggested = [i \in DOMAIN plan.options |-> Encode(plan.options[i])],
                          !.default_grid = Encode(default_grid),
                          !.default_padding = settings.default_padding,
                          !.selected_grid = <<>>,
                          !.images = @ + 1,
                          !.last = NoCallback]
    /\ UNCHANGED outsideSelect

\* choose_grid: `grid.encode() not in suggested`
GridOffered(suggested, grid) == \E i \in DOMAIN suggested : suggested[i] = Encode(grid)

\* choose_grid with the callback data "grid:<rows>x<cols>"
SelChooseGrid(value) ==
    LET grid == Decode(value)
        ok == GridOffered(sel.suggested, grid)
    IN
    /\ sel.state = "wait_grid"
    /\ sel' = [sel EXCEPT !.state = IF ok THEN "wait_pad" ELSE @,
                          !.selected_grid = IF ok THEN Encode(grid) ELSE @,
                          !.last = [op |-> "grid", value |-> value, valid |-> ok,
                                    scratch |-> sel.scratch,
                                    submitted |-> Len(sel.submitted)]]
    /\ UNCHANGED outsideSelect

\* choose_padding with the callback data "pad:<padding>": the dialogue is
\* cleared, write_bytes, user_settings.update (which raises for a grid over
\* the limit), submit
SelChoosePadding(padding) ==
    LET grid == Decode(sel.selected_grid)
        raised == UpdateRejects(grid, LimitTiles)
    IN
    /\ sel.state = "wait_pad"
    /\ sel.selected_grid # <<>>
    /\ sel' = [sel EXCEPT !.state = "none",
                          !.suggested = <<>>,
                          !.default_grid = <<>>,
                          !.default_padding = 0,
                          !.selected_grid = <<>>,
                          !.scratch = @ + 1,
                          !.settings = IF raised THEN @ ELSE <<RowOf(grid, padding)>>,
                          !.submitted = IF raised THEN @
                                        ELSE Append(@, [grid |-> grid, padding |-> padding]),
                          !.last = [op |-> "pad", value |-> <<padding>>,
                                    valid |-> padding \in 0..MaxPaddingLevel,
                                    scratch |-> sel.scratch,
                                    submitted |-> Len(sel.submitted)]]
    /\ UNCHANGED outsideSelect

\* the grids and paddings a callback can name
CallbackGrids == {Encode(<<r, c>>) : r \in 1..MaxCallbackSide, c \in 1..MaxCallbackSide}

CallbackPaddings == -1..MaxCallbackPadding

SelectInit ==
    /\ CoreIdle /\ RetryIdle /\ CoeIdle /\ NameIdle /\ TrackIdle /\ SettingsIdle /\ SweepIdle /\ TraceIdle /\ TextIdle /\ PayloadIdle /\ PlanIdle /\ UsageIdle /\ RegistryIdle /\ NormIdle /\ TasksIdle /\ AssembleIdle
    /\ \E mt \in 1..MaxSelTiles, cl \in 1..MaxSelTiles, cap \in 0..MaxSelTiles :
         sel = [NoSelection EXCEPT !.max_tiles = mt, !.creation_limit = cl,
                                   !.grid_option_cap = cap]

SelectNext ==
    \/ \E w \in 1..MaxSide, h \in 1..MaxSide : SelOnImage(w, h)
    \/ \E value \in CallbackGrids : SelChooseGrid(value)
    \/ \E padding \in CallbackPaddings : SelChoosePadding(padding)

SpecSelect == SelectInit /\ [][SelectNext]_vars

(***************************************************************************)
(* Storage.increment_usage.  Every call opens its own connection; the      *)
(* INSERT ... ON CONFLICT statement opens a write transaction, which       *)
(* SQLite grants to one connection at a time, and commit ends it.  A row   *)
(* is <<>> or a one-element sequence.                                       *)
(***************************************************************************)
UsageUsers == {1, 2}

\* the connections open at a time
UsageClients == {1, 2}

\* (username, display_name) as a user may carry them; " " is blank
UsageNames == {<<"", "">>, <<"alex", "Alex">>, <<" ", "Al">>}

\* (value or "").strip() or None, with "" for None
Normalized(text) == IF text = " " THEN "" ELSE text

WriteLockFree_Always(lock, c) == TRUE

\* SQLite lets a connection write when no other connection is writing
WriteLockFree(lock, c) == lock = 0 \/ lock = c

\* INSERT ... ON CONFLICT(user_id) DO UPDATE on the row of the user
Upserted(row, username, display_name, stamp) ==
    IF row = <<>>
    THEN <<[username |-> username, display_name |-> display_name, total_count |-> 1,
            first_seen |-> stamp, last_seen |-> stamp]>>
    ELSE <<[username |-> IF username # "" THEN username ELSE row[1].username,
            display_name |-> IF display_name # "" THEN display_name ELSE row[1].display_name,
            total_count |-> row[1].total_count + 1,
            first_seen |-> row[1].first_seen,
            last_seen |-> stamp]>>

RECURSIVE SumTo(_, _)
\* f[1] + ... + f[n]
SumTo(f, n) == IF n = 0 THEN 0 ELSE f[n] + SumTo(f, n - 1)

\* the calls that returned and those under way
CallsMade ==
    SumTo(ust.returned, 2)
    + Cardinality({c \in UsageClients : ust.call[c].pc # "idle"})

\* the clock of datetime.now(UTC)
UsageTick ==
    /\ ust.clock < MaxUsageClock
    /\ ust' = [ust EXCEPT !.clock = @ + 1]
    /\ UNCHANGED outsideUsage

\* increment_usage up to the connection: the names are normalized and `now`
\* is read
UsageCall(c, u, names) ==
    /\ ust.call[c].pc = "idle"
    /\ CallsMade < MaxUsageCalls
    /\ ust' = [ust EXCEPT !.call[c] = [pc |-> "connected", user |-> u,
                                       username |-> Normalized(names[1]),
                                       display_name |-> Normalized(names[2]),
                                       now |-> ust.clock, row |-> <<>>]]
    /\ UNCHANGED outsideUsage

\* db.execute: the statement waits for the write lock, then reads the row
\* and writes the new one inside its transaction
UsageExecute(c) ==
    LET call == ust.call[c] IN
    /\ call.pc = "connected"
    /\ WriteLockFree(ust.lock, c)
    /\ ust' = [ust EXCEPT !.lock = c,
                          !.call[c].pc = "executed",
                          !.call[c].row = Upserted(ust.rows[call.user], call.username,
                                                   call.display_name, call.now),
                          !.overlapped = @ \/ \E d \in UsageClients \ {c} :
                                                 ust.call[d].pc # "idle"]
    /\ UNCHANGED outsideUsage

\* db.commit, and the call returns
UsageCommit(c) ==
    LET call == ust.call[c] IN
    /\ call.pc = "executed"
    /\ ust' = [ust EXCEPT !.rows[call.user] = call.row,
                          !.lock = IF @ = c THEN 0 ELSE @,
                          !.call[c] = NoUsageCall,
                          !.returned[call.user] = @ + 1,
                          !.first[call.user] = IF @ = -1 THEN call.row[1].first_seen ELSE @]
    /\ UNCHANGED outsideUsage

UsageInit ==
    /\ CoreIdle /\ RetryIdle /\ CoeIdle /\ NameIdle /\ TrackIdle /\ SettingsIdle /\ SweepIdle /\ TraceIdle /\ TextIdle /\ PayloadIdle /\ PlanIdle /\ SelectIdle /\ RegistryIdle /\ NormIdle /\ TasksIdle /\ AssembleIdle
    /\ ust = NoUsage

UsageNext ==
    \/ UsageTick
    \/ \E c \in UsageClients, u \in UsageUsers, names \in UsageNames : UsageCall(c, u, names)
    \/ \E c \in UsageClients : UsageExecute(c)
    \/ \E c \in UsageClients : UsageCommit(c)

SpecUsage == UsageInit /\ [][UsageNext]_vars

(***************************************************************************)
(* StageRegistry.  An entry is <<key, factory>>; a factory is known by its *)
(* __name__; "" stands for None.                                           *)
(***************************************************************************)
StageNames == {"", "dashes", "quotes"}

Factories == {"dashes", "spaces"}

\* the name argument of register: None, or a name that both factories are
\* registered under
GivenNames == {"", "quotes"}

IsRegistered_Never(entries, key) == FALSE

\* key in {k for (k, _) in self._entries}
IsRegistered(entries, key) == \E i \in DOMAIN entries : entries[i][1] = key

\* list.insert(idx, entry)
InsertAt(entries, idx, entry) ==
    SubSeq(entries, 1, idx - 1) \o <<entry>> \o SubSeq(entries, idx, Len(entries))

InsertAround_AtEnd(entries, entry, target, offset) == Append(entries, entry)

\* _insert_before and _insert_after: `offset` is 0 or 1
InsertAround(entries, entry, target, offset) ==
    IF IsRegistered(entries, target)
    THEN LET idx == CHOOSE i \in DOMAIN entries :
                        /\ entries[i][1] = target
                        /\ \A j \in 1..(i - 1) : entries[j][1] # target
         IN InsertAt(entries, idx + offset, entry)
    ELSE Append(entries, entry)

NextVersion_Same(version) == version

\* self._version += 1
NextVersion(version) == version + 1

\* register: what it leaves in the registry and whether it raises
RegisterResult(entries, version, factory, name, before, after, replace) ==
    LET key == IF name # "" THEN name ELSE factory
        kept == IF replace THEN SelectSeq(entries, LAMBDA e : e[1] # key) ELSE entries
        entry == <<key, factory>>
    IN IF IsRegistered(kept, key) /\ ~replace
       THEN [raised |-> TRUE, entries |-> kept, version |-> version]
       ELSE [raised |-> FALSE,
             entries |-> IF before # "" THEN InsertAround(kept, entry, before, 0)
                         ELSE IF after # "" THEN InsertAround(kept, entry, after, 1)
                         ELSE Append(kept, entry),
             version |-> NextVersion(version)]

\* StageRegistry.register(factory, name=, before=, after=, replace=)
Register(factory, name, before, after, replace) ==
    LET res == RegisterResult(reg.entries, reg.version, factory, name, before, after, replace)
    IN
    /\ res.raised \/ reg.version < MaxVersion
    /\ reg' = [reg EXCEPT !.entries = res.entries, !.version = res.version,
               !.last = [op |-> "register", key |-> IF name # "" THEN name ELSE factory,
                         before |-> before, after |-> after,
                         replace |-> replace, raised |-> res.raised,
                         entries |-> reg.entries, version |-> reg.version]]
    /\ UNCHANGED outsideRegistry

\* create_pipeline(): the stages the factories make, in the order of the entries
CreatePipeline(entries) == [i \in DOMAIN entries |-> entries[i][2]]

\* the test that rebuilds the memoized pipeline
CacheIsStale(cache, version) == cache = <<>> \/ cache[1] # version

\* normalize_text without a pipeline: _get_default_pipeline
GetDefaultPipeline ==
    LET cache == IF CacheIsStale(reg.cache, reg.version)
                 THEN <<reg.version, CreatePipeline(reg.entries)>>
                 ELSE reg.cache
    IN
    /\ reg.last.op # "pipeline"
    /\ reg' = [reg EXCEPT !.cache = cache, !.pipeline = cache[2], !.last.op = "pipeline"]
    /\ UNCHANGED outsideRegistry

RegistryInit ==
    /\ CoreIdle /\ RetryIdle /\ CoeIdle /\ NameIdle /\ TrackIdle /\ SettingsIdle /\ SweepIdle /\ TraceIdle /\ TextIdle /\ PayloadIdle /\ PlanIdle /\ SelectIdle /\ UsageIdle /\ NormIdle /\ TasksIdle /\ AssembleIdle
    /\ reg = NoRegistry

RegistryNext ==
    \E factory \in Factories, name \in GivenNames, before \in StageNames,
       after \in StageNames, replace \in BOOLEAN :
        Register(factory, name, before, after, replace)

SpecRegistry == RegistryInit /\ [][RegistryNext]_vars

\* register calls and calls of normalize_text, in any order
PipelineNext ==
    \/ RegistryNext
    \/ GetDefaultPipeline

SpecPipeline == RegistryInit /\ [][PipelineNext]_vars

(***************************************************************************)
(* normalize_text with the default pipeline: preflight_stats,              *)
(* llm_artifacts, typography, final_cleanup.  A text is a sequence of      *)
(* pieces: "turn0se" directly followed by "arch1" reads turn0search1, "w"  *)
(* is any other word, and " ", "(" and ")" are themselves.  The texts have *)
(* one line and none of the characters typography replaces.                *)
(***************************************************************************)
Pieces == {"turn0se", "arch1", "cite", "w", " ", "(", ")"}

WordPieces == {"turn0se", "arch1", "cite", "w"}

IsWordAt(s, i) == i >= 1 /\ i <= Len(s) /\ s[i] \in WordPieces

\* TURN_TOKEN_PATTERN matches at piece i: \bturn\d+<type>\d+\b
TokenAt(s, i) ==
    /\ i >= 1 /\ i + 1 <= Len(s)
    /\ s[i] = "turn0se" /\ s[i + 1] = "arch1"
    /\ ~IsWordAt(s, i - 1) /\ ~IsWordAt(s, i + 2)

RECURSIVE SpacesEnd(_, _)
\* the last piece of the run of spaces that begins at i; i - 1 when none
SpacesEnd(s, i) == IF i <= Len(s) /\ s[i] = " " THEN SpacesEnd(s, i + 1) ELSE i - 1

RECURSIVE TurnSeqEnd(_, _)
\* RE_TURN_SEQ from the token at i: the last piece of the match
TurnSeqEnd(s, i) ==
    LET k == SpacesEnd(s, i + 2)
    IN IF k > i + 1 /\ TokenAt(s, k + 1) THEN TurnSeqEnd(s, k + 1) ELSE i + 1

\* RE_CITE_PLUS_SEQ at piece i: the last piece of the match, 0 when none
CiteSeqEnd(s, i) ==
    LET k == SpacesEnd(s, i + 1)
    IN IF s[i] = "cite" /\ ~IsWordAt(s, i - 1) /\ k > i /\ TokenAt(s, k + 1)
       THEN TurnSeqEnd(s, k + 1) ELSE 0

RECURSIVE RemoveCiteSeq(_, _)
\* RE_CITE_PLUS_SEQ.subn("", text), from piece i on
RemoveCiteSeq(s, i) ==
    IF i > Len(s) THEN <<>>
    ELSE IF CiteSeqEnd(s, i) > 0 THEN RemoveCiteSeq(s, CiteSeqEnd(s, i) + 1)
    ELSE <<s[i]>> \o RemoveCiteSeq(s, i + 1)

RECURSIVE RemoveTurnSeq(_, _)
\* RE_TURN_SEQ.subn("", text), from piece i on
RemoveTurnSeq(s, i) ==
    IF i > Len(s) THEN <<>>
    ELSE IF TokenAt(s, i) THEN RemoveTurnSeq(s, TurnSeqEnd(s, i) + 1)
    ELSE <<s[i]>> \o RemoveTurnSeq(s, i + 1)

\* RE_CITE_PLUS_SEQ.search(inner) or RE_TURN_TOKEN.search(inner)
HasMarker(inner) ==
    \E i \in 1..Len(inner) : TokenAt(inner, i) \/ CiteSeqEnd(inner, i) > 0

RECURSIVE Removable(_, _, _, _)
\* the scan of _remove_bracketed_groups_with_markers: the groups to remove
Removable(s, i, stack, found) ==
    IF i > Len(s) THEN found
    ELSE IF s[i] = "("
    THEN Removable(s, i + 1, Append(stack, [pos |-> i, has_marker |-> FALSE]), found)
    ELSE IF s[i] = ")" /\ stack # <<>>
    THEN LET top == stack[Len(stack)]
             rest == SubSeq(stack, 1, Len(stack) - 1)
             has_marker == HasMarker(SubSeq(s, top.pos + 1, i - 1)) \/ top.has_marker
         IN Removable(s, i + 1,
                      IF rest = <<>> THEN rest
                      ELSE [rest EXCEPT ![Len(rest)].has_marker = @ \/ has_marker],
                      IF has_marker THEN found \cup {<<top.pos, i>>} ELSE found)
    ELSE Removable(s, i + 1, stack, found)

RECURSIVE WithoutGroups(_, _, _)
\* the text without the pieces of the merged groups
WithoutGroups(s, i, groups) ==
    IF i > Len(s) THEN <<>>
    ELSE IF \E g \in groups : g[1] <= i /\ i <= g[2] THEN WithoutGroups(s, i + 1, groups)
    ELSE <<s[i]>> \o WithoutGroups(s, i + 1, groups)

\* _remove_bracketed_groups_with_markers
RemoveBracketedGroups(s) == WithoutGroups(s, 1, Removable(s, 1, <<>>, {}))

RECURSIVE EmptyBracketsPass(_, _)
\* RE_EMPTY_BRACKETS.sub("", text), from piece i on
EmptyBracketsPass(s, i) ==
    IF i > Len(s) THEN <<>>
    ELSE LET k == SpacesEnd(s, i + 1)
         IN IF s[i] = "(" /\ k + 1 <= Len(s) /\ s[k + 1] = ")"
            THEN EmptyBracketsPass(s, k + 2)
            ELSE <<s[i]>> \o EmptyBracketsPass(s, i + 1)

RECURSIVE RemoveEmptyBrackets(_)
\* remove_empty_brackets: the passes repeated until nothing changes
RemoveEmptyBrackets(s) ==
    LET next == EmptyBracketsPass(s, 1)
    IN IF next = s THEN s ELSE RemoveEmptyBrackets(next)

RECURSIVE CollapseSpaces(_, _)
\* re.sub(r"[ \t]{2,}", " ", text)
CollapseSpaces(s, i) ==
    IF i > Len(s) THEN <<>>
    ELSE IF s[i] = " " THEN <<" ">> \o CollapseSpaces(s, SpacesEnd(s, i) + 1)
    ELSE <<s[i]>> \o CollapseSpaces(s, i + 1)

RECURSIVE NoSpaceBeforeClose(_, _)
\* re.sub(r"\s+([,.;:)\]\}])", r"\1", text)
NoSpaceBeforeClose(s, i) ==
    IF i > Len(s) THEN <<>>
    ELSE LET k == SpacesEnd(s, i)
         IN IF k >= i /\ k + 1 <= Len(s) /\ s[k + 1] = ")"
            THEN NoSpaceBeforeClose(s, k + 1)
            ELSE <<s[i]>> \o NoSpaceBeforeClose(s, i + 1)

RECURSIVE NoSpaceAfterOpen(_, _)
\* re.sub(r"([\(\[\{])\s+", r"\1", text)
NoSpaceAfterOpen(s, i) ==
    IF i > Len(s) THEN <<>>
    ELSE IF s[i] = "(" THEN <<"(">> \o NoSpaceAfterOpen(s, SpacesEnd(s, i + 1) + 1)
    ELSE <<s[i]>> \o NoSpaceAfterOpen(s, i + 1)

RECURSIVE RStripSpaces(_)
\* re.sub(r"(?m)[ \t]+$", "", text) and str.rstrip, for one line
RStripSpaces(s) ==
    IF s # <<>> /\ s[Len(s)] = " " THEN RStripSpaces(SubSeq(s, 1, Len(s) - 1)) ELSE s

RECURSIVE LStripSpaces(_)
LStripSpaces(s) == IF s # <<>> /\ s[1] = " " THEN LStripSpaces(Tail(s)) ELSE s

\* cleanup_punctuation_and_spaces
CleanupPunctuationAndSpaces(s) ==
    RStripSpaces(NoSpaceAfterOpen(NoSpaceBeforeClose(CollapseSpaces(s, 1), 1), 1))

\* drop_empty_lines_and_list_items, for one line
DropEmptyLines(s) ==
    LET raw == RStripSpaces(s)
        stripped == LStripSpaces(raw)
    IN IF stripped = <<>> THEN <<>>
       ELSE IF \A i \in DOMAIN RemoveEmptyBrackets(stripped) :
                  RemoveEmptyBrackets(stripped)[i] = " "
       THEN <<>>
       ELSE raw

\* the end of the three stages that change the text
FinalCleanup(s) == DropEmptyLines(CleanupPunctuationAndSpaces(RemoveEmptyBrackets(s)))

\* LLMArtifactsStage.apply
LLMArtifacts(s) ==
    LET no_groups == RemoveBracketedGroups(s)
        no_cite == RemoveCiteSeq(no_groups, 1)
        no_tokens == RemoveTurnSeq(no_cite, 1)
        second == RemoveTurnSeq(CleanupPunctuationAndSpaces(no_tokens), 1)
    IN FinalCleanup(second)

RECURSIVE TextsUpTo(_)
TextsUpTo(n) ==
    IF n = 0 THEN {<<>>}
    ELSE TextsUpTo(n - 1) \cup {Append(s, p) : s \in TextsUpTo(n - 1), p \in Pieces}

NormInit ==
    /\ CoreIdle /\ RetryIdle /\ CoeIdle /\ NameIdle /\ TrackIdle /\ SettingsIdle /\ SweepIdle /\ TraceIdle /\ TextIdle /\ PayloadIdle /\ PlanIdle /\ SelectIdle /\ UsageIdle /\ RegistryIdle /\ TasksIdle /\ AssembleIdle
    /\ \E text \in TextsUpTo(MaxTextLen) :
         nt = [stage |-> "start", input |-> text, text |-> text]

\* PreflightStatsStage.apply: it counts, the text stays
NormPreflight ==
    /\ nt.stage = "start"
    /\ nt' = [nt EXCEPT !.stage = "preflight_stats"]
    /\ UNCHANGED outsideNorm

\* LLMArtifactsStage.apply
NormArtifacts ==
    /\ nt.stage = "preflight_stats"
    /\ nt' = [nt EXCEPT !.stage = "llm_artifacts", !.text = LLMArtifacts(nt.text)]
    /\ UNCHANGED outsideNorm

\* TypographyStage.apply: none of its characters occurs, its cleanup runs
NormTypography ==
    /\ nt.stage = "llm_artifacts"
    /\ nt' = [nt EXCEPT !.stage = "typography", !.text = FinalCleanup(nt.text)]
    /\ UNCHANGED outsideNorm

\* FinalCleanupStage.apply, after which normalize_text returns the text
NormFinalCleanup ==
    /\ nt.stage = "typography"
    /\ nt' = [nt EXCEPT !.stage = "final_cleanup", !.text = FinalCleanup(nt.text)]
    /\ UNCHANGED outsideNorm

NormNext == NormPreflight \/ NormArtifacts \/ NormTypography \/ NormFinalCleanup

SpecNorm == NormInit /\ [][NormNext]_vars

(***************************************************************************)
(* EmojiProcessingQueue seen as tasks.  _tasks is a list that start()      *)
(* fills and stop() clears; an item of the queue is a request number, in   *)
(* the order of submission, or Poison.  process is one step from its call  *)
(* to its return.                                                          *)
(***************************************************************************)
\* the worker tasks that have not ended
RunningTasks(list) == {i \in DOMAIN list : list[i].pc # "done"}

StartReturnsEarly_Never(list) == FALSE

\* start: `if self._tasks: return`
StartReturnsEarly(list) == list # <<>>

QueueAfterPut_AtFront(items, item) == <<item>> \o items

\* asyncio.Queue.put: the item goes to the end
QueueAfterPut(items, item) == Append(items, item)

QueueAfterGet_KeepsItem(items) == items

\* asyncio.Queue.get: the head leaves the queue
QueueAfterGet(items) == Tail(items)

RECURSIVE PutPoisons(_, _)
\* stop: `for _ in range(self._workers): await self._queue.put(None)`
PutPoisons(items, n) ==
    IF n = 0 THEN items ELSE PutPoisons(QueueAfterPut(items, Poison), n - 1)

\* start()
TaskStart ==
    /\ wq.starts < MaxStarts
    /\ wq' = [wq EXCEPT
                !.starts = @ + 1,
                !.tasks = IF StartReturnsEarly(wq.tasks) THEN @
                          ELSE @ \o [i \in 1..wq.workers |-> [pc |-> "get", req |-> 0]],
                !.last = [op |-> "start",
                          created |-> IF StartReturnsEarly(wq.tasks) THEN 0 ELSE wq.workers,
                          running |-> Cardinality(RunningTasks(wq.tasks))]]
    /\ UNCHANGED outsideTasks

\* stop(), up to its await of gather
TaskStopCall ==
    /\ wq.stopPc = "idle"
    /\ wq.stops < MaxTaskStops
    /\ wq' = [wq EXCEPT !.stops = @ + 1,
                        !.queue = PutPoisons(@, wq.workers),
                        !.stopPc = "gather",
                        !.last = [op |-> "stop", created |-> 0,
                                  running |-> Cardinality(RunningTasks(wq.tasks))]]
    /\ UNCHANGED outsideTasks

\* stop(), from the return of gather: _tasks.clear()
TaskStopReturn ==
    /\ wq.stopPc = "gather"
    /\ RunningTasks(wq.tasks) = {}
    /\ wq' = [wq EXCEPT !.tasks = <<>>, !.stopPc = "idle"]
    /\ UNCHANGED outsideTasks

\* submit(request)
TaskSubmit ==
    /\ wq.submitted < MaxTaskRequests
    /\ wq' = [wq EXCEPT !.submitted = @ + 1,
                        !.queue = QueueAfterPut(@, wq.submitted + 1),
                        !.last = [op |-> "submit", created |-> 0,
                                  running |-> Cardinality(RunningTasks(wq.tasks))]]
    /\ UNCHANGED outsideTasks

\* _worker: queue.get() returns; on None the task ends, else process is called
TaskGet(i) ==
    LET item == Head(wq.queue) IN
    /\ i \in DOMAIN wq.tasks
    /\ wq.tasks[i].pc = "get"
    /\ wq.queue # <<>>
    /\ wq' = IF item = Poison
             THEN [wq EXCEPT !.queue = QueueAfterGet(@), !.tasks[i].pc = "done"]
             ELSE [wq EXCEPT !.queue = QueueAfterGet(@),
                             !.tasks[i] = [pc |-> "process", req |-> item],
                             !.calls[item] = @ + 1,
                             !.started = Append(@, item)]
    /\ UNCHANGED outsideTasks

\* _worker: process has returned or raised; the future is resolved unless it
\* is done, task_done, and back to queue.get()
TaskFinish(i) ==
    LET r == wq.tasks[i].req IN
    /\ i \in DOMAIN wq.tasks
    /\ wq.tasks[i].pc = "process"
    /\ wq' = [wq EXCEPT !.tasks[i] = [pc |-> "get", req |-> 0],
                        !.resolved = IF \E k \in DOMAIN @ : @[k] = r THEN @
                                     ELSE Append(@, r)]
    /\ UNCHANGED outsideTasks

TasksInit ==
    /\ CoreIdle /\ RetryIdle /\ CoeIdle /\ NameIdle /\ TrackIdle /\ SettingsIdle /\ SweepIdle /\ TraceIdle /\ TextIdle /\ PayloadIdle /\ PlanIdle /\ SelectIdle /\ UsageIdle /\ RegistryIdle /\ NormIdle /\ AssembleIdle
    /\ \E n \in {1, 2} : wq = [NoTasks EXCEPT !.workers = n]

TasksNext ==
    \/ TaskStart
    \/ TaskStopCall
    \/ TaskStopReturn
    \/ TaskSubmit
    \/ \E i \in 1..(2 * MaxStarts) : TaskGet(i)
    \/ \E i \in 1..(2 * MaxStarts) : TaskFinish(i)

SpecTasks == TasksInit /\ [][TasksNext]_vars

(***************************************************************************)
(* create_or_extend from its first get_sticker_set on, with the attempts   *)
(* of that retry_async call one by one.  asm.log holds the remote calls    *)
(* and the sleeps in order; asm.set is as tg.set.  The other retry_async   *)
(* calls are seen from outside.                                            *)
(***************************************************************************)
\* what one invocation of a remote operation can answer: also a network
\* failure or a flood wait
AttemptAnswers(set) == Answers(set) \cup {"network"}

RetryWorthy_NetworkOnly(out) == out = "network"

\* retry_exceptions = (TelegramRetryAfter, TelegramNetworkError, TelegramBadRequest)
RetryWorthy(out) == out \in {"network", "not_found", "bad_request"}

Logged(a, op, out, delay) ==
    [a EXCEPT !.log = Append(@, [op |-> op, out |-> out, delay |-> delay])]

\* the except clause of create_or_extend, entered with the failure `out`
Handled(a, out) ==
    IF LeadsToCreate(out) THEN [a EXCEPT !.pc = "create"] ELSE [a EXCEPT !.pc = "raised"]

AssembleInit ==
    /\ CoreIdle /\ RetryIdle /\ CoeIdle /\ NameIdle /\ TrackIdle /\ SettingsIdle /\ SweepIdle /\ TraceIdle /\ TextIdle /\ PayloadIdle /\ PlanIdle /\ SelectIdle /\ UsageIdle /\ RegistryIdle /\ NormIdle /\ TasksIdle
    /\ \E s \in {-1, 1} :
         asm = [NoAssemble EXCEPT !.pc = "get", !.set = s, !.attempt = 1,
                                 !.delay = DefaultInitialDelay]

\* one invocation of get_sticker_set inside retry_async
AsmGetAttempt(out) ==
    /\ asm.pc = "get"
    /\ out \in AttemptAnswers(asm.set)
    /\ LET a == Logged(asm, "get", out, 0) IN
       asm' = IF out = "ok" THEN [a EXCEPT !.pc = "add", !.first = "ok"]
              ELSE IF ~RetryWorthy(out) \/ IsLastAttempt(asm.attempt, DefaultAttempts)
              THEN Handled([a EXCEPT !.first = out], out)
              ELSE [a EXCEPT !.pc = "sleep"]
    /\ UNCHANGED outsideAssemble

\* asyncio.sleep(delay) between two invocations, then the next delay
AsmSleep ==
    /\ asm.pc = "sleep"
    /\ asm' = [Logged(asm, "sleep", "none", asm.delay) EXCEPT
                  !.delay = NextDelay(asm.delay, DefaultFactor, DefaultMaxDelay),
                  !.attempt = @ + 1, !.pc = "get"]
    /\ UNCHANGED outsideAssemble

\* the additions and the re-read, one retry_async call seen from outside
AsmExtend(out) ==
    /\ asm.pc = "add"
    /\ out \in Answers(asm.set)
    /\ LET a == Logged(asm, "add", out, 0) IN
       asm' = IF out = "ok" THEN [a EXCEPT !.pc = "returned"] ELSE Handled(a, out)
    /\ UNCHANGED outsideAssemble

\* create_new_sticker_set, seen from outside; a name in use is refused
AsmCreate(out) ==
    /\ asm.pc = "create"
    /\ out \in (IF asm.set < 0 THEN {"ok"} ELSE {}) \cup {"bad_request", "other"}
    /\ LET a == Logged(asm, "create", out, 0) IN
       asm' = IF out = "ok" THEN [a EXCEPT !.set = 1, !.pc = "returned"]
              ELSE [a EXCEPT !.pc = "raised"]
    /\ UNCHANGED outsideAssemble

\* the owner deletes the set, or a set of that name is created by another call
AsmSetChanges ==
    /\ asm.pc \in {"get", "sleep", "add", "create"}
    /\ asm.changes < MaxSetChanges
    /\ asm' = [asm EXCEPT !.set = IF @ < 0 THEN 1 ELSE -1, !.changes = @ + 1]
    /\ UNCHANGED outsideAssemble

AssembleNext ==
    \/ \E out \in Outcomes \cup {"network"} : AsmGetAttempt(out)
    \/ AsmSleep
    \/ \E out \in Outcomes : AsmExtend(out)
    \/ \E out \in Outcomes : AsmCreate(out)
    \/ AsmSetChanges

SpecAssemble == AssembleInit /\ [][AssembleNext]_vars

(***************************************************************************)
(* Properties of the gate                                                  *)
(***************************************************************************)

\* C1: once try_acquire(u) has returned true, a later try_acquire(u) returns
\* true only if release(u) has been called since that grant and at least
\* Cooldown has passed since that release.
C1_GrantNeedsReleaseAndCooldown ==
    [][\A u \in Users :
         (TryAcquire(u) /\ grants[u] > 0 /\ TryAcquireResult(states, u, now))
            => (releasedAt[u] >= 0 /\ now - releasedAt[u] >= Cooldown)]_vars

\* a user has been granted a second time and holds the gate
C1_Witness ==
    \E u \in Users : grants[u] = 2 /\ states[u].busy /\ releasedAt[u] = -1

(***************************************************************************)
(* Properties of the queue and of process                                  *)
(***************************************************************************)
Done(r) == future[r] \notin {"absent", "pending"}

\* C2: with the workers started and stop() not called, the future of every
\* submitted request is eventually resolved, and resolved once: with the
\* outcome only after process has saved and returned, with the failure
\* otherwise, whatever happened to the requests before it.
C2_EverySubmissionResolvedOnce ==
    /\ \A r \in Requests : (future[r] = "pending" /\ tasks # {}) ~> Done(r)
    /\ [][\A r \in Requests :
            /\ Done(r) => future'[r] = future[r]
            /\ (~Done(r) /\ future'[r] = "result")
                  => \E w \in WorkerIds : wreq[w] = r /\ ProcSave(w)]_vars

\* a request has failed and a request submitted after it has its outcome
C2_Witness ==
    \E r1, r2 \in Requests :
        r1 < r2 /\ future[r1] \in Exceptions /\ future[r2] = "result"

\* C4 (as stated): when process has exited for a request and no unlink or
\* rmtree of its cleanup failed, none of the request's files is in the
\* scratch area, nor its job directory when it has one.
C4_NoFilesAfterExit ==
    \A r \in Requests :
        (Done(r) /\ ~cleanupFailed[r])
           => (FilesOf(r) \cap files = {} /\ (reqDir[r] = "job" => r \notin dirs))

\* C5: when create_or_extend has raised for a request, the future carries
\* that failure unchanged, the cleanup has run before it, and no job row was
\* written for the request.
C5_UploadFailurePropagates ==
    \A r \in Requests :
        (coeRaised[r] # "none" /\ future[r] # "pending")
           => /\ future[r] = coeRaised[r]
              /\ \E i \in DOMAIN steps[r] : steps[r][i] = "clean"
              /\ \A i \in DOMAIN steps[r] : steps[r][i] # "cache"
              /\ \A row \in emoji_jobs : row.res # r

\* create_or_extend raised, an unlink of the cleanup failed too, and the
\* future holds the failure of create_or_extend
C5_Witness ==
    \E r \in Requests :
        coeRaised[r] # "none" /\ cleanupFailed[r] /\ future[r] = coeRaised[r]

\* C6: two requests with the same key that both got an outcome each ran
\* create_or_extend once, and the table holds one row for the key: the row of
\* the request that saved last.
C6_SameKeyBothRunLastSaveWins ==
    \A r1, r2 \in Requests :
        (r1 # r2 /\ reqKey[r1] = reqKey[r2]
              /\ future[r1] = "result" /\ future[r2] = "result")
           => /\ coe[r1] = 1 /\ coe[r2] = 1
              /\ {row \in emoji_jobs : row.key = reqKey[r1]}
                    = {[key |-> reqKey[r1], res |-> lastSaved[reqKey[r1]]]}

\* two requests of one key have their outcomes; the one submitted first
\* saved last and owns the row
C6_Witness ==
    \E r1, r2 \in Requests :
        /\ r1 < r2 /\ reqKey[r1] = reqKey[r2]
        /\ future[r1] = "result" /\ future[r2] = "result"
        /\ [key |-> reqKey[r1], res |-> r1] \in emoji_jobs

\* C7 (as stated): when stop() is called on running workers and returns,
\* every future that was pending at the call has been resolved.
C7_StopResolvesPending ==
    [][(StopReturn /\ atStop.running)
          => \A r \in atStop.pending : future'[r] # "pending"]_vars

\* C8 (as stated): a stop() on a queue already stopped changes nothing.
C8_SecondStopChangesNothing ==
    [][((StopCall \/ StopReturn) /\ stopped /\ tasks = {})
          => UNCHANGED <<queue, tasks, stopped, wpc>>]_vars

(***************************************************************************)
(* Properties of the image flow                                            *)
(***************************************************************************)
Ended(r) == rst[r] \in {"aborted", "finished"}

\* C3 (as stated): every admitted request that has left the flow, by
\* success or by failure, has released the gate.
C3_ReleasedOnEveryExit ==
    \A r \in Requests :
        Ended(r) => \E i \in DOMAIN steps[r] : steps[r][i] = "release"

StatedOrder ==
    <<"admit", "persist", "enqueue", "slice", "upload", "assemble", "cache", "clean",
      "release">>

CodeOrder ==
    <<"admit", "persist", "enqueue", "slice", "upload", "assemble", "clean", "cache",
      "release">>

Rank(order, name) == CHOOSE i \in DOMAIN order : order[i] = name

InOrder(order, log) ==
    \A i, j \in DOMAIN log : i < j => Rank(order, log[i]) < Rank(order, log[j])

\* C9 (as stated): the steps of a request happen in the order admit, persist,
\* enqueue, slice, upload, assemble, cache, clean, release.
C9_StatedOrder == \A r \in Requests : InOrder(StatedOrder, steps[r])

\* C9 (amended): the steps of a request happen in the order admit, persist,
\* enqueue, slice, upload, assemble, clean, cache, release.
C9_CleanBeforeCache == \A r \in Requests : InOrder(CodeOrder, steps[r])

\* a request has gone through all nine steps
C9_Witness == \E r \in Requests : steps[r] = CodeOrder

(***************************************************************************)
(* Properties of retry_async                                               *)
(***************************************************************************)
Ran == rt.pc # "none"

\* C10: the operation is invoked at most `attempts` times and a sleep only
\* ever stands between two attempts; when all attempts failed with
\* retry-worthy failures, there were `attempts` invocations, attempts - 1
\* sleeps, and the failure raised is that of the last attempt.
C10_BoundedAttempts ==
    Ran =>
      /\ rt.calls <= rt.attempts
      /\ Len(rt.sleeps) = IF rt.pc = "call" THEN rt.calls ELSE rt.calls - 1
      /\ (rt.pc = "raised" /\ rt.retryable)
            => /\ rt.calls = rt.attempts
               /\ Len(rt.sleeps) = rt.attempts - 1
               /\ rt.raised = rt.attempts

\* the most attempts, all failed with retry-worthy failures, the call has raised
C10_Witness ==
    rt.pc = "raised" /\ rt.retryable /\ rt.attempts = MaxAttempts /\ rt.calls = MaxAttempts

\* C11: once an attempt has failed with a failure outside retry_exceptions,
\* retry_async has raised that failure: the operation was invoked as many
\* times as the number of the failing attempt, the sleeps are those between
\* the attempts before it, and nothing more happens.
C11_OtherFailurePropagatesAtOnce ==
    ~rt.retryable =>
      /\ rt.pc = "raised"
      /\ rt.raised = rt.attempt
      /\ rt.calls = rt.attempt
      /\ Len(rt.sleeps) = rt.attempt - 1
      /\ ~ENABLED RetryNext

\* the second attempt, of more allowed, failed with a failure outside
\* retry_exceptions
C11_Witness ==
    ~rt.retryable /\ rt.pc = "raised" /\ rt.raised = 2 /\ rt.attempts > 2

Count(log, name) == Cardinality({j \in DOMAIN log : log[j] = name})

AllTiles(n) == [j \in 1..n |-> j]

\* C12 (as stated): when the first get_sticker_set found the set, the call
\* never creates a set, and when it returns it has added every tile once, in
\* tile order; when the first get_sticker_set answered set-not-found, nothing
\* is added and a returned call has created once; when it failed otherwise,
\* the failure is raised and nothing is created.
C12_FoundAddsNotFoundCreates ==
    /\ tg.first = "ok" =>
          /\ Count(tg.log, "create") = 0
          /\ tg.pc = "returned" => tg.added = AllTiles(tg.n)
    /\ tg.first = "not_found" =>
          /\ tg.added = <<>>
          /\ tg.pc \in {"readnew", "returned"} => Count(tg.log, "create") = 1
    /\ tg.first \in {"bad_request", "other"} =>
          /\ tg.pc = "raised" /\ tg.raised = tg.first
          /\ Count(tg.log, "create") = 0

\* C22: a create_or_extend call with more tiles than creation_limit has
\* raised, and has made no upload_sticker_file, get_sticker_set,
\* add_sticker_to_set or create_new_sticker_set call, so that no set has been
\* changed by it.
C22_TooManyTilesRaisesBeforeRemote ==
    (tg.calls > 0 /\ tg.n > tg.creation_limit) =>
        /\ tg.pc = "raised"
        /\ tg.raised = "too_many_tiles"
        /\ tg.log = <<>>
        /\ tg.added = <<>>

\* a call with too many tiles has raised while the set exists
C22_Witness ==
    /\ tg.calls > 0 /\ tg.n > tg.creation_limit /\ tg.pc = "raised"
    /\ tg.set >= 0 /\ tg.set = tg.before

C13_FreshNamePerRequest ==
    (sn.pc = "built" /\ sn.short_name[1] # <<>> /\ sn.at[1] # sn.at[2])
        => sn.short_name[1] # sn.short_name[2]

(***************************************************************************)
(* Properties of tracking                                                  *)
(***************************************************************************)
EventsOf(l, u) ==
    {e \in DOMAIN trk.events : trk.events[e].link = l /\ trk.events[e].user = u}

\* C14 (as stated): among the events recorded for a link and a user exactly
\* one has first_start set, and it is the earliest of them.
C14_OneFirstStartAndEarliest ==
    \A l \in 1..MaxLinks, u \in TrackUsers :
        EventsOf(l, u) # {} =>
            \E e \in EventsOf(l, u) :
                /\ \A f \in EventsOf(l, u) : trk.events[f].first_start <=> f = e
                /\ \A f \in EventsOf(l, u) : e <= f

\* C15 (as stated): no two active links have the same slug.
C15_ActiveSlugsDistinct ==
    \A l1, l2 \in DOMAIN trk.links :
        (l1 # l2 /\ ~trk.links[l1].deleted /\ ~trk.links[l2].deleted)
            => trk.links[l1].slug # trk.links[l2].slug

\* C23 (as stated): a handle_start whose payload cannot be decoded, or whose
\* link_id names no active link, returns None and leaves the events as they
\* were.
C23_NoMatchReturnsNone ==
    [][(trk'.last # trk.last /\ ~trk'.last.active) =>
          (trk'.last.result = "no_match" /\ trk'.events = trk.events)]_vars

\* C25 (as stated): a create_tracking_link with the slug of a deleted link
\* that no active link holds gets exactly that slug, in a new row; a
\* delete_link of a deleted link returns false and changes no row; no
\* delete_link changes the events.
C25_SlugReusableAfterDelete ==
    [][/\ (trk'.made # trk.made
            /\ trk'.made.asked \notin ActiveSlugs(trk.links)
            /\ \E l \in DOMAIN trk.links :
                  trk.links[l].deleted /\ trk.links[l].slug = trk'.made.asked)
          => (~trk'.made.raised /\ trk'.made.chosen = trk'.made.asked)
       /\ Len(trk'.links) > Len(trk.links)
          => SubSeq(trk'.links, 1, Len(trk.links)) = trk.links
       /\ (trk'.del # trk.del /\ trk.links[trk'.del.link].deleted)
          => (~trk'.del.returned /\ trk'.links = trk.links)
       /\ trk'.del # trk.del => trk'.events = trk.events]_vars

\* C26 (as stated): the slug of every stored link satisfies validate_slug.
C26_StoredSlugsValid ==
    \A l \in DOMAIN trk.links : ValidateSlug(trk.links[l].slug)

(***************************************************************************)
(* Properties of the user settings                                         *)
(***************************************************************************)
\* C16: a get that read a row whose grid is over the limit returns the
\* configured default grid when that is within the limit and 1x1 otherwise,
\* with the padding of the row, and has written what it returns to the
\* table: the row is now within the limit.
C16_GetRepairsAndPersists ==
    (us.last.op = "get" /\ NeedsRepair(us.last.stored, us.grid_limit)) =>
        /\ us.last.grid = IF Tiles(us.default_grid) <= us.grid_limit
                          THEN us.default_grid ELSE <<1, 1>>
        /\ us.last.padding = us.last.stored.default_padding
        /\ us.store[us.last.user] = RowOf(us.last.grid, us.last.padding)
        /\ Tiles(Decode(us.store[us.last.user].default_grid)) <= us.grid_limit

\* a get has repaired a row although the configured default grid is over the
\* limit too
C16_Witness ==
    /\ us.last.op = "get" /\ NeedsRepair(us.last.stored, us.grid_limit)
    /\ Tiles(us.default_grid) > us.grid_limit
    /\ us.last.grid = <<1, 1>>

\* C17: an update with a grid over the limit raises and changes no row; an
\* update within the limit writes the row of its user only, and a get of
\* that user on the table it leaves returns the grid and padding given.
C17_UpdateRejectsOrUpserts ==
    [][us'.last.op = "update" =>
         LET u == us'.last.user
             g == us'.last.grid
             p == us'.last.padding
         IN  IF Tiles(g) > us.grid_limit
             THEN us'.last.raised /\ us'.store = us.store
             ELSE /\ ~us'.last.raised
                  /\ \A v \in SettingsUsers \ {u} : us'.store[v] = us.store[v]
                  /\ GetResult(us', u) = <<g, p>>
                  /\ StoreAfterGet(us', u) = us'.store]_vars

\* an update has replaced the row of a user while the other user has a row
C17_Witness ==
    /\ us.last.op = "update" /\ ~us.last.raised /\ us.last.stored # <<>>
    /\ \E v \in SettingsUsers \ {us.last.user} : us.store[v] # <<>>
    /\ us.store[us.last.user] # us.last.stored

(***************************************************************************)
(* Properties of the scratch area                                          *)
(***************************************************************************)
\* C18: whatever job cleanup removes while a sweep is under way, cleanup
\* raises nothing and the sweep loop is running until stop() is called.
C18_SweepSurvivesVanishedEntries ==
    /\ sw.raised = "none"
    /\ (sw.pc # "none" /\ ~sw.stopped) => SweepRunning

\* C36 (as stated): the entry the sweep removed last, a file or a directory,
\* had at the moment of its removal a mtime older than the retention; so no
\* file just written, at the top or into a directory that was there, is lost.
C36_SweepRemovesOnlyOldEntries ==
    sw.removed.kind \in {"tmp", "dir"} => sw.removed.old

\* C37 (as stated): the entry the sweep removed last was not the source file
\* of a request that is queued or in flight.
C37_SweepSparesSourcesInFlight ==
    sw.removed.kind \in {"tmp", "dir"} => ~sw.removed.live

(***************************************************************************)
(* The gate as a state machine                                             *)
(***************************************************************************)
\* the calls of one user, in order
CallsOf(u) == SelectSeq(tr.log, LAMBDA c : c.u = u)

IsStatedTrace(calls) ==
    /\ Len(calls) = TraceLen
    /\ \A i \in 1..TraceLen : calls[i].op = StatedTrace[i].op /\ calls[i].t = StatedTrace[i].t

\* C19: every call of the guard is a step of the machine {busy, last_action}
\* of its user: try_acquire returns true exactly when the user has no state
\* or is neither busy nor within the cooldown, it stamps last_action whether
\* it accepts or rejects, acceptance sets busy, release clears busy and
\* stamps last_action, and the state of no other user changes.  The calls
\* try_acquire at 0 and 0.5, release at 1, try_acquire at 1.5 and 3.5 of one
\* user return true, false, -, false, true.
C19_GuardIsTheStatedMachine ==
    /\ tr.log # <<>> =>
         LET c == tr.log[Len(tr.log)] IN
         /\ c.op = "try_acquire" => c.res = ResultText(MachineAccepts(tr.last.pre, c.t))
         /\ tr.last.post = MachineAfter(c.op, tr.last.pre, c.t)
         /\ tr.last.post = states[c.u]
         /\ tr.last.othersKept
    /\ \A u \in TraceUsers :
         IsStatedTrace(CallsOf(u)) =>
            \A i \in 1..TraceLen : CallsOf(u)[i].res = StatedResults[i]

\* the five calls of the stated trace have been made by one user
C19_Witness ==
    \E u \in TraceUsers : IsStatedTrace(CallsOf(u)) /\ CallsOf(u)[TraceLen].res = "true"

(***************************************************************************)
(* One request per user                                                    *)
(***************************************************************************)
Submitted(r) == future[r] # "absent"

GateReleased(r) == \E i \in DOMAIN steps[r] : steps[r][i] = "release"

\* C20: the submitted requests of one user that are not resolved number at
\* most one, and when a later request of the user has been submitted, every
\* earlier submitted one has its future resolved and its gate released.
C20_OneRequestPerUser ==
    \A r1, r2 \in Requests :
        (r1 < r2 /\ reqUser[r1] = reqUser[r2] /\ Submitted(r1) /\ Submitted(r2)) =>
            /\ Done(r1)
            /\ GateReleased(r1)

\* the user has submitted a second request
C20_Witness ==
    \E r1, r2 \in Requests :
        /\ r1 < r2 /\ reqUser[r1] = TheUser /\ reqUser[r2] = TheUser
        /\ Submitted(r1) /\ Submitted(r2)

(***************************************************************************)
(* Properties of the payload encoder                                       *)
(***************************************************************************)
\* C27: decode_payload of the payload encode_link_id made of a link_id, with
\* any salt and timestamp, is that link_id.
C27_DecodeInvertsEncode ==
    pe.pc = "decoded" => ~pe.decoded.raised /\ pe.decoded.value = pe.link_id

\* a link_id of three bytes has been encoded, with a payload that needs
\* padding to be decoded, and decoded
C27_Witness ==
    /\ pe.pc = "decoded" /\ pe.link_id = 65536
    /\ Len(pe.payload.value) % 4 = 3 /\ pe.salt # pe.timestamp

(***************************************************************************)
(* Properties of suggest_grids                                             *)
(***************************************************************************)
\* |cell_aspect - 1| of the first option is less than that of the second,
\* in exact arithmetic: |w*r1/(h*c1) - 1| < |w*r2/(h*c2) - 1|
FitLess(width, height, o1, o2) ==
    LET d1 == width * o1[1] - height * o1[2]
        d2 == width * o2[1] - height * o2[2]
        a1 == IF d1 < 0 THEN 0 - d1 ELSE d1
        a2 == IF d2 < 0 THEN 0 - d2 ELSE d2
    IN a1 * o2[2] < a2 * o1[2]

\* the options are in ascending order of (|cell_aspect - 1|, tiles)
PlanOrdered(width, height, options) ==
    \A i \in 1..(Len(options) - 1) :
        LET a == options[i]
            b == options[i + 1]
        IN \/ FitLess(width, height, a, b)
           \/ ~FitLess(width, height, b, a) /\ Tiles(a) <= Tiles(b)

\* C30: the plan suggest_grids returns has pairwise distinct options, at most
\* `limit` of them, each with rows and cols in 1..10 and at most max_tiles
\* tiles, in ascending order of (|cell_aspect - 1|, tiles), and its fallback
\* is the first option.
C30_PlanIsBoundedAndOrdered ==
    gp.pc = "returned" =>
        /\ Len(gp.options) >= 1 /\ Len(gp.options) <= gp.limit
        /\ \A i, j \in DOMAIN gp.options : i # j => gp.options[i] # gp.options[j]
        /\ \A i \in DOMAIN gp.options :
              /\ gp.options[i][1] \in 1..MaxGridSide
              /\ gp.options[i][2] \in 1..MaxGridSide
              /\ Tiles(gp.options[i]) <= gp.max_tiles
        /\ PlanOrdered(gp.width, gp.height, gp.options)
        /\ gp.fallback = gp.options[1]

(***************************************************************************)
(* Properties of the emoji dialogue                                        *)
(***************************************************************************)
\* C21: every request the emoji handlers submit has a padding in 0..5 and a
\* grid of at most min(max_tiles, creation_limit) tiles, and a callback with
\* a grid that was not offered or a padding outside 0..5 is rejected: it
\* writes nothing to scratch and submits nothing.
C21_SubmittedSelectionsAreValid ==
    /\ \A i \in DOMAIN sel.submitted :
          /\ sel.submitted[i].padding \in 0..MaxPaddingLevel
          /\ Tiles(sel.submitted[i].grid) <= LimitTiles
    /\ ~sel.last.valid =>
          /\ sel.scratch = sel.last.scratch
          /\ Len(sel.submitted) = sel.last.submitted

(***************************************************************************)
(* Properties of usage_stats                                               *)
(***************************************************************************)
TotalCount(u) == IF ust.rows[u] = <<>> THEN 0 ELSE ust.rows[u][1].total_count

LastWasDuplicate ==
    \E i \in DOMAIN reg.last.entries : reg.last.entries[i][1] = reg.last.key

\* C28: register with a name that is already registered and replace = False
\* raises and leaves the entries, their order and the version as they were.
C28_DuplicateRegisterRaisesUnchanged ==
    (LastWasDuplicate /\ ~reg.last.replace) =>
        /\ reg.last.raised
        /\ reg.entries = reg.last.entries
        /\ reg.version = reg.last.version

\* a registry of two stages has refused a second registration of one of them
C28_Witness ==
    /\ LastWasDuplicate /\ ~reg.last.replace /\ reg.last.raised
    /\ Len(reg.entries) = 2
    /\ reg.version = 2

\* the last call of register returned
Registered == reg.last.op = "register" /\ ~reg.last.raised

NamesOf(entries) == [i \in DOMAIN entries |-> entries[i][1]]

Holds(names, name) == \E i \in DOMAIN names : names[i] = name

Pos(names, name) == CHOOSE i \in DOMAIN names : names[i] = name

PairwiseDistinct(names) == \A i, j \in DOMAIN names : i # j => names[i] # names[j]

\* the names of the stages other than the one the last call registered
Others(names) == SelectSeq(names, LAMBDA n : n # reg.last.key)

OthersKeepOrder == Others(NamesOf(reg.entries)) = Others(NamesOf(reg.last.entries))

\* C39 (as stated): the names are pairwise distinct; after a register call
\* that returned, the new stage stands immediately before the registered stage
\* named by `before`, immediately after the one named by `after`, at the end
\* when no anchor was given or the anchor was not registered, and the other
\* stages are in the order they had.
C39_AnchorsPlaceTheStage ==
    LET names == NamesOf(reg.entries)
        had == NamesOf(reg.last.entries)
        before == reg.last.before
        after == reg.last.after
        at == Pos(names, reg.last.key)
    IN
    /\ PairwiseDistinct(names)
    /\ Registered =>
          /\ (before # "" /\ Holds(had, before)) =>
                (Holds(names, before) /\ at + 1 = Pos(names, before))
          /\ (after # "" /\ Holds(had, after)) =>
                (Holds(names, after) /\ at = Pos(names, after) + 1)
          /\ ((before = "" /\ after = "") \/ (before # "" /\ ~Holds(had, before))
                 \/ (before = "" /\ after # "" /\ ~Holds(had, after)))
                => at = Len(names)
          /\ OthersKeepOrder

\* C39 (amended): the names are pairwise distinct; a register call that
\* returned used one anchor, `before` when it was given and `after` otherwise;
\* the new stage stands immediately before, or after, the other stage the
\* anchor names, at the end when there is no anchor or it names no other
\* stage, and the other stages are in the order they had.
C39_OneAnchorPlacesTheStage ==
    LET names == NamesOf(reg.entries)
        others == Others(NamesOf(reg.last.entries))
        before == reg.last.before
        after == reg.last.after
        anchor == IF before # "" THEN before ELSE after
        at == Pos(names, reg.last.key)
    IN
    /\ PairwiseDistinct(names)
    /\ Registered =>
          /\ (before # "" /\ Holds(others, before)) => at + 1 = Pos(names, before)
          /\ (before = "" /\ after # "" /\ Holds(others, after))
                => at = Pos(names, after) + 1
          /\ (anchor = "" \/ ~Holds(others, anchor)) => at = Len(names)
          /\ OthersKeepOrder

\* a stage was registered between two others, before the second of them
C39_Witness ==
    /\ Registered /\ reg.last.before # ""
    /\ Len(reg.entries) = 3
    /\ reg.entries[2][1] = reg.last.key
    /\ reg.entries[3][1] = reg.last.before
    /\ Len(reg.last.entries) = 2

\* C38: the pipeline _get_default_pipeline has just handed to normalize_text
\* holds one stage for each name of list_stage_names(), in that order, made
\* by the factory registered under that name, whatever register calls,
\* raising or not, came before.
C38_DefaultPipelineIsCurrent ==
    reg.last.op = "pipeline" =>
        /\ Len(reg.pipeline) = Len(reg.entries)
        /\ \A i \in DOMAIN reg.entries : reg.pipeline[i] = reg.entries[i][2]

\* a pipeline was memoized, the registry changed, a register call was
\* refused, and the pipeline handed out next is the rebuilt one
C38_Witness ==
    /\ reg.last.op = "pipeline" /\ reg.last.raised
    /\ reg.cache # <<>> /\ reg.cache[1] = 3
    /\ Len(reg.pipeline) = 2
    /\ reg.pipeline[1] # reg.pipeline[2]

(***************************************************************************)
(* Properties of normalize_text                                            *)
(***************************************************************************)
\* C29: the text normalize_text returns holds no citation token
\* turn<digits><type><digits> and no `cite` followed by such a token.
C29_OutputHasNoCitationToken ==
    nt.stage = "final_cleanup" =>
        \A i \in 1..Len(nt.text) : ~TokenAt(nt.text, i) /\ CiteSeqEnd(nt.text, i) = 0

(***************************************************************************)
(* Properties of the queue as tasks                                        *)
(***************************************************************************)
\* C31: after any calls of start, stop and submit at most `workers` worker
\* tasks are running, and a start() called while workers are running creates
\* no task.
C31_AtMostWorkersTasks ==
    /\ Cardinality(RunningTasks(wq.tasks)) <= wq.workers
    /\ (wq.last.op = "start" /\ wq.last.running > 0) => wq.last.created = 0

\* start() has been called while both workers were running, one of them in
\* process
C31_Witness ==
    /\ wq.last.op = "start" /\ wq.last.running = 2
    /\ \E i \in DOMAIN wq.tasks : wq.tasks[i].pc = "process"

\* the requests are in ascending order, that is in the order of submission
Ascending(rs) == \A i, j \in DOMAIN rs : i < j => rs[i] < rs[j]

\* C32: the calls of process begin in the order of submission, and with a
\* single worker the futures are resolved in the order of submission.
C32_FifoDequeue ==
    /\ Ascending(wq.started)
    /\ wq.workers = 1 => Ascending(wq.resolved)

\* three requests went to two workers in the order of submission and the
\* second was resolved before the first
C32_Witness ==
    /\ wq.workers = 2
    /\ wq.started = <<1, 2, 3>>
    /\ Len(wq.resolved) >= 2 /\ wq.resolved[1] = 2 /\ wq.resolved[2] = 1

\* the tasks that are inside process
InProcess == {i \in DOMAIN wq.tasks : wq.tasks[i].pc = "process"}

\* the requests that have left the queue
Dequeued == {r \in 1..wq.submitted : \A k \in DOMAIN wq.queue : wq.queue[k] # r}

StatedDelay(k) == Min(DefaultInitialDelay * DefaultFactor ^ (k - 1), DefaultMaxDelay)

\* the first create_new_sticker_set of the log
FirstCreate == CHOOSE c \in DOMAIN asm.log :
                  /\ asm.log[c].op = "create"
                  /\ \A b \in 1..(c - 1) : asm.log[b].op # "create"

\* C40: a set-not-found answer of get_sticker_set before the last attempt is
\* followed by a sleep and another invocation; and when the first
\* get_sticker_set call of create_or_extend ended with set-not-found, the log
\* up to the first create_new_sticker_set is: `attempts` invocations of
\* get_sticker_set, none of them successful, with the back-off sleeps between
\* them.
C40_NotFoundIsRetriedBeforeCreate ==
    /\ \A i \in DOMAIN asm.log :
          (asm.log[i].op = "get" /\ asm.log[i].out = "not_found" /\ i < 2 * DefaultAttempts - 1)
             => IF i = Len(asm.log) THEN asm.pc = "sleep" ELSE asm.log[i + 1].op = "sleep"
    /\ (asm.first = "not_found" /\ \E c \in DOMAIN asm.log : asm.log[c].op = "create") =>
          /\ FirstCreate = 2 * DefaultAttempts
          /\ \A k \in 1..DefaultAttempts :
                /\ asm.log[2 * k - 1].op = "get"
                /\ asm.log[2 * k - 1].out \in Failures \cup {"network"}
          /\ \A k \in 1..(DefaultAttempts - 1) :
                /\ asm.log[2 * k].op = "sleep"
                /\ asm.log[2 * k].delay = StatedDelay(k)

\* the set never existed, every attempt answered set-not-found, and the set
\* was created
C40_Witness ==
    /\ asm.first = "not_found" /\ asm.pc = "returned" /\ asm.changes = 0
    /\ Len(asm.log) = 2 * DefaultAttempts
    /\ asm.log[1].out = "not_found"
    /\ asm.log[Len(asm.log)] = [op |-> "create", out |-> "ok", delay |-> 0]

====
